---- MODULE Spec2Model ----
(***************************************************************************)
(* A model of the MergeTree storage engine: memtable, parts (in memory and *)
(* on disk), the merger and the engine facade.                             *)
(*                                                                         *)
(* Keys are strings in the code; here a key is a natural number ordered as *)
(* the strings are, with 0 standing for the empty string "" (the value a   *)
(* default-constructed std::string holds) and k > 0 for a one-character    *)
(* string.  Values are one-character strings, timestamps are naturals.     *)
(***************************************************************************)
EXTENDS Integers, Sequences, FiniteSets, TLC

\* ------------------------------------------------------------------ bounds
MaxKey == 1
MaxTs == 2
MaxVal == 1
MaxInserts == 3
\* granule.h sets GRANULE_SIZE = 8192; the model packs granules of this many
\* rows so that parts with several granules occur within MaxInserts rows.
GRANULE_SIZE == 2

Keys == 0..MaxKey
Timestamps == 1..MaxTs
Values == 1..MaxVal
EmptyString == 0

\* configurations the engine is opened with (MergeTreeConfig)
FlushThresholds == {2, 3}
MaxMaxParts == 1
MaxPartsChoices == 0..MaxMaxParts

\* ------------------------------------------------------------------ Row
Row(k, v, ts) == [key |-> k, value |-> v, timestamp |-> ts]

Rows == [key : Keys, value : Values, timestamp : Timestamps]

\* Row::operator<
RowLess(a, b) ==
    IF a.key # b.key THEN a.key < b.key ELSE a.timestamp < b.timestamp

\* the predicate query and merge_rows deduplicate with
SameKeyTs(a, b) == a.key = b.key /\ a.timestamp = b.timestamp

KeyTs(r) == <<r.key, r.timestamp>>

\* byte length of a key / of a value as a string
KeyLen(k) == IF k = EmptyString THEN 0 ELSE 1
ValueLen(v) == 1

\* ------------------------------------------------------------------ helpers
RECURSIVE SumSeq(_)
SumSeq(s) == IF s = <<>> THEN 0 ELSE Head(s) + SumSeq(Tail(s))

RECURSIVE Flatten(_)
Flatten(ss) == IF ss = <<>> THEN <<>> ELSE Head(ss) \o Flatten(Tail(ss))

Range(s) == {s[i] : i \in DOMAIN s}

Last(s) == s[Len(s)]

MaxOf(S) == CHOOSE x \in S : \A y \in S : y <= x
MinOf(S) == CHOOSE x \in S : \A y \in S : x <= y

\* std::sort of a set of numbers
RECURSIVE Ascending(_)
Ascending(S) ==
    IF S = {} THEN <<>> ELSE <<MinOf(S)>> \o Ascending(S \ {MinOf(S)})

\* std::sort(first, last) with Row::operator<.  For ranges of at most 16
\* elements libstdc++ runs its insertion sort, which leaves equivalent rows
\* in their input order; no sequence of this model is longer.
RECURSIVE InsertSorted(_, _)
InsertSorted(s, r) ==
    IF s = <<>> THEN <<r>>
    ELSE IF RowLess(r, Head(s)) THEN <<r>> \o s
    ELSE <<Head(s)>> \o InsertSorted(Tail(s), r)

RECURSIVE SortRows(_)
SortRows(s) ==
    IF s = <<>> THEN <<>>
    ELSE InsertSorted(SortRows(SubSeq(s, 1, Len(s) - 1)), s[Len(s)])

\* std::unique with the (key, timestamp) predicate: keeps the first row of
\* every run of consecutive equivalent rows
RECURSIVE UniqueKeyTs(_)
UniqueKeyTs(s) ==
    IF Len(s) <= 1 THEN s
    ELSE LET rest == UniqueKeyTs(Tail(s))
         IN IF SameKeyTs(Head(s), Head(rest)) THEN <<Head(s)>> \o Tail(rest)
            ELSE <<Head(s)>> \o rest

\* the scan loop shared by MemTable::query and Granule::query_range: collect
\* rows in [start_key, end_key], stop at the first row with key > end_key
RECURSIVE ScanRange(_, _, _)
ScanRange(rows, start_key, end_key) ==
    IF rows = <<>> THEN <<>>
    ELSE LET r == Head(rows)
         IN IF r.key >= start_key /\ r.key <= end_key
               THEN <<r>> \o ScanRange(Tail(rows), start_key, end_key)
            ELSE IF r.key > end_key THEN <<>>
            ELSE ScanRange(Tail(rows), start_key, end_key)

\* ------------------------------------------------------------------ MemTable
\* mutant: a row whose (key, timestamp) is already held is dropped
MemTable_insert_Once(mem, row) ==
    IF \E i \in DOMAIN mem : SameKeyTs(mem[i], row) THEN mem
    ELSE LET n == Cardinality({i \in DOMAIN mem : RowLess(mem[i], row)})
         IN SubSeq(mem, 1, n) \o <<row>> \o SubSeq(mem, n + 1, Len(mem))

\* MemTable::insert: the new node goes before the first node that is not
\* less than the row
MemTable_insert(mem, row) ==
    LET n == Cardinality({i \in DOMAIN mem : RowLess(mem[i], row)})
    IN SubSeq(mem, 1, n) \o <<row>> \o SubSeq(mem, n + 1, Len(mem))

MemTable_query(mem, start_key, end_key) == ScanRange(mem, start_key, end_key)

MemTable_get_all_rows(mem) == mem

\* ------------------------------------------------------------------ Granule
\* Granule::Granule
Granule_new == [rows |-> <<>>, min_key |-> EmptyString, max_key |-> EmptyString,
                sorted |-> FALSE]

\* mutant: a granule takes one row more than GRANULE_SIZE
Granule_is_full_Over(g) == Len(g.rows) > GRANULE_SIZE

Granule_is_full(g) == Len(g.rows) >= GRANULE_SIZE

Granule_is_empty(g) == g.rows = <<>>

\* Granule::update_key_range
Granule_update_key_range(g) ==
    IF g.rows = <<>>
       THEN [g EXCEPT !.min_key = EmptyString, !.max_key = EmptyString]
    ELSE IF g.sorted
       THEN [g EXCEPT !.min_key = Head(g.rows).key, !.max_key = Last(g.rows).key]
    ELSE [g EXCEPT !.min_key = MinOf({r.key : r \in Range(g.rows)}),
                   !.max_key = MaxOf({r.key : r \in Range(g.rows)})]

\* Granule::add_row (the callers never add to a full granule)
Granule_add_row(g, row) ==
    Granule_update_key_range([g EXCEPT !.rows = Append(g.rows, row), !.sorted = FALSE])

\* Granule::sort
Granule_sort(g) ==
    IF g.sorted THEN g
    ELSE Granule_update_key_range([g EXCEPT !.rows = SortRows(g.rows), !.sorted = TRUE])

\* Granule::query_range on a sorted granule
Granule_query_range(g, start_key, end_key) == ScanRange(g.rows, start_key, end_key)

\* ------------------------------------------------------------------ SparseIndex
IndexEntry(min_k, max_k, idx, count) ==
    [min_key |-> min_k, max_key |-> max_k, granule_index |-> idx, row_count |-> count]

\* mutant: an entry that ends at start_key is passed over
IndexEntry_overlaps_range_Strict(e, start_key, end_key) ==
    ~(e.max_key <= start_key \/ e.min_key > end_key)

\* IndexEntry::overlaps_range
IndexEntry_overlaps_range(e, start_key, end_key) ==
    ~(e.max_key < start_key \/ e.min_key > end_key)

\* SparseIndex::find_granules: granule_index of every overlapping entry, in
\* entry order
SparseIndex_find_granules(entries, start_key, end_key) ==
    LET hit == SelectSeq(entries, LAMBDA e : IndexEntry_overlaps_range(e, start_key, end_key))
    IN [i \in DOMAIN hit |-> hit[i].granule_index]

\* ------------------------------------------------------------------ Serialization
\* Serialization::write_granule: one file per column
Serialization_write_granule(g) ==
    [keys |-> [i \in DOMAIN g.rows |-> g.rows[i].key],
     values |-> [i \in DOMAIN g.rows |-> g.rows[i].value],
     timestamps |-> [i \in DOMAIN g.rows |-> g.rows[i].timestamp]]

RECURSIVE AddRows(_, _)
AddRows(g, rows) ==
    IF rows = <<>> THEN g ELSE AddRows(Granule_add_row(g, Head(rows)), Tail(rows))

\* Serialization::read_granule: rebuild the rows from the three columns,
\* add them to a new granule and sort it
Serialization_read_granule(f) ==
    Granule_sort(AddRows(Granule_new,
        [i \in DOMAIN f.keys |-> Row(f.keys[i], f.values[i], f.timestamps[i])]))

\* sizes in bytes: write_uint64 writes 8 bytes, write_string 8 + length
StringVectorSize(lens) == 8 + SumSeq([i \in DOMAIN lens |-> 8 + lens[i]])

GranuleFileSize(f) ==
    StringVectorSize([i \in DOMAIN f.keys |-> KeyLen(f.keys[i])])
    + StringVectorSize([i \in DOMAIN f.values |-> ValueLen(f.values[i])])
    + 8 + 8 * Len(f.timestamps)

\* SparseIndex::save_to_file
IndexFileSize(entries) ==
    8 + SumSeq([i \in DOMAIN entries |->
                  (8 + KeyLen(entries[i].min_key)) + (8 + KeyLen(entries[i].max_key)) + 16])

\* Part::save_metadata: nine fields, two of them strings
MetadataFileSize(m) == 8 + (8 + KeyLen(m.min_key)) + (8 + KeyLen(m.max_key)) + 6 * 8

\* ------------------------------------------------------------------ Part
\* Part::Part with PartMetadata(id): min_key and max_key are empty strings,
\* the counts are 0; min_timestamp and max_timestamp are left uninitialized
\* (the record has no such fields until update_metadata or load_metadata
\* sets them, so a read of them before that is an error of the model)
Part_new(id) ==
    [metadata |-> [part_id |-> id, min_key |-> EmptyString, max_key |-> EmptyString,
                   row_count |-> 0, granule_count |-> 0],
     granules |-> <<>>, index |-> <<>>, loaded |-> FALSE]

\* mutant: the bounds of the range taken as exclusive
Part_overlaps_range_Exclusive(part, start_key, end_key) ==
    ~(part.metadata.max_key <= start_key \/ part.metadata.min_key >= end_key)

\* Part::overlaps_range: on the metadata the object holds right now
Part_overlaps_range(part, start_key, end_key) ==
    ~(part.metadata.max_key < start_key \/ part.metadata.min_key > end_key)

\* mutant: max_key taken from the first granule
Part_update_metadata_Front(m, granules) ==
    LET all == Flatten([i \in DOMAIN granules |-> granules[i].rows])
    IN [part_id |-> m.part_id,
        min_key |-> Head(granules).min_key,
        max_key |-> Head(granules).max_key,
        min_timestamp |-> MinOf({r.timestamp : r \in Range(all)}),
        max_timestamp |-> MaxOf({r.timestamp : r \in Range(all)}),
        row_count |-> SumSeq([i \in DOMAIN granules |-> Len(granules[i].rows)]),
        granule_count |-> Len(granules)]

\* Part::update_metadata (granules is never empty here)
Part_update_metadata(m, granules) ==
    LET all == Flatten([i \in DOMAIN granules |-> granules[i].rows])
    IN [part_id |-> m.part_id,
        min_key |-> Head(granules).min_key,
        max_key |-> Last(granules).max_key,
        min_timestamp |-> MinOf({r.timestamp : r \in Range(all)}),
        max_timestamp |-> MaxOf({r.timestamp : r \in Range(all)}),
        row_count |-> SumSeq([i \in DOMAIN granules |-> Len(granules[i].rows)]),
        granule_count |-> Len(granules)]

\* Part::build_index: one entry per non-empty granule, granule_index 0-based
Part_build_index(granules) ==
    LET idxs == SelectSeq([i \in DOMAIN granules |-> i],
                          LAMBDA i : ~Granule_is_empty(granules[i]))
    IN [j \in DOMAIN idxs |->
          IndexEntry(granules[idxs[j]].min_key, granules[idxs[j]].max_key,
                     idxs[j] - 1, Len(granules[idxs[j]].rows))]

\* a part directory on disk: metadata.bin, primary.idx and the granule file
\* triples granule_0.., one element of granule_files per triple present
NoDir == [exists |-> FALSE]

\* the files Part::write_granules leaves in the directory old: every file it
\* writes is truncated and rewritten, granule files of a higher index that
\* were already there stay
WriteDir(old, part) ==
    LET n == Len(part.granules)
        stale == IF old.exists /\ Len(old.granule_files) > n
                    THEN SubSeq(old.granule_files, n + 1, Len(old.granule_files))
                 ELSE <<>>
    IN [exists |-> TRUE,
        metadata |-> part.metadata,
        index |-> part.index,
        granule_files |->
            [i \in 1..n |-> Serialization_write_granule(part.granules[i])] \o stale]

\* Part::write_granules: the part object after the write (gs: the granules,
\* each sorted)
PartWritten(part, gs) ==
    [metadata |-> Part_update_metadata(part.metadata, gs),
     granules |-> gs,
     index |-> Part_build_index(gs),
     loaded |-> TRUE]

Part_write_granules(part, granules) ==
    PartWritten(part, [i \in DOMAIN granules |-> Granule_sort(granules[i])])

\* the packing loop of Part::write_from_memtable_rows
RECURSIVE PackGranules(_, _, _)
PackGranules(rows, current_granule, granules) ==
    IF rows = <<>>
       THEN IF ~Granule_is_empty(current_granule)
               THEN Append(granules, Granule_sort(current_granule))
            ELSE granules
    ELSE IF Granule_is_full(current_granule)
       THEN PackGranules(Tail(rows), Granule_add_row(Granule_new, Head(rows)),
                         Append(granules, Granule_sort(current_granule)))
    ELSE PackGranules(Tail(rows), Granule_add_row(current_granule, Head(rows)), granules)

\* MemTable::flush_to_granules: the level-0 list packed into granules; the
\* memtable keeps its rows
MemTable_flush_to_granules(mem) ==
    IF mem = <<>> THEN <<>> ELSE PackGranules(mem, Granule_new, <<>>)

\* mutant: the part keeps one row of each (key, timestamp)
Part_write_from_memtable_rows_Dedup(part, rows) ==
    Part_write_granules(part, PackGranules(UniqueKeyTs(SortRows(rows)), Granule_new, <<>>))

\* Part::write_from_memtable_rows (rows is never empty here)
Part_write_from_memtable_rows(part, rows) ==
    Part_write_granules(part, PackGranules(SortRows(rows), Granule_new, <<>>))

\* Part::exists_on_disk
Part_exists_on_disk(dir) == dir.exists

\* Part::disk_usage: the sizes of all regular files of the directory
Part_disk_usage(dir) ==
    IF ~Part_exists_on_disk(dir) THEN 0
    ELSE MetadataFileSize(dir.metadata) + IndexFileSize(dir.index)
         + SumSeq([i \in DOMAIN dir.granule_files |-> GranuleFileSize(dir.granule_files[i])])

\* Part::load from the directory of the part's id (which exists)
Part_load(part, dir) ==
    IF part.loaded THEN part
    ELSE [metadata |-> dir.metadata,
          index |-> dir.index,
          granules |-> [i \in 1..dir.metadata.granule_count |->
                          Serialization_read_granule(dir.granule_files[i])],
          loaded |-> TRUE]

\* Part::unload: the granules are dropped; metadata and index stay in memory
Part_unload(part) == [part EXCEPT !.granules = <<>>, !.loaded = FALSE]

\* Part::query on a loaded part p
LoadedPart_query(p, start_key, end_key) ==
    LET granule_indices == SparseIndex_find_granules(p.index, start_key, end_key)
        hits == SelectSeq(granule_indices, LAMBDA g : g < Len(p.granules))
    IN IF ~Part_overlaps_range(p, start_key, end_key) THEN <<>>
       ELSE Flatten([i \in DOMAIN hits |->
                       Granule_query_range(p.granules[hits[i] + 1], start_key, end_key)])

\* Part::query: the rows returned (the part is loaded first)
Part_query(part, dir, start_key, end_key) ==
    LoadedPart_query(Part_load(part, dir), start_key, end_key)

LoadedPart_get_all_rows(p) == Flatten([i \in DOMAIN p.granules |-> p.granules[i].rows])

\* Part::get_all_rows: the rows returned (the part is loaded first)
Part_get_all_rows(part, dir) == LoadedPart_get_all_rows(Part_load(part, dir))

\* ------------------------------------------------------------------ disk
\* the data directory: part id -> directory part_<id>
DirOf(dirs, id) == IF id \in DOMAIN dirs THEN dirs[id] ELSE NoDir

PutDir(dirs, id, dir) ==
    [i \in (DOMAIN dirs) \cup {id} |-> IF i = id THEN dir ELSE dirs[i]]

\* ------------------------------------------------------------------ MergeIterator
\* RowWithSource::operator>: key ascending, timestamp descending
RowWithSource_greater(a, b) ==
    a.row.key > b.row.key
    \/ (a.row.key = b.row.key /\ a.row.timestamp < b.row.timestamp)

RowWithSource(r, p, i) == [row |-> r, part_index |-> p, row_index |-> i]

\* std::priority_queue<RowWithSource, vector, std::greater>: the vector is a
\* binary heap kept by std::push_heap / std::pop_heap (positions are 0-based
\* as in the library, v[p + 1] is position p)
RECURSIVE PushHeapAt(_, _, _, _)
PushHeapAt(v, hole, top, value) ==
    LET parent == (hole - 1) \div 2
    IN IF hole > top /\ RowWithSource_greater(v[parent + 1], value)
          THEN PushHeapAt([v EXCEPT ![hole + 1] = v[parent + 1]], parent, top, value)
       ELSE [v EXCEPT ![hole + 1] = value]

Heap_push(h, x) == PushHeapAt(Append(h, x), Len(h), 0, x)

RECURSIVE AdjustHeapDown(_, _, _)
AdjustHeapDown(v, hole, len) ==
    IF hole < (len - 1) \div 2
       THEN LET right == 2 * (hole + 1)
                child == IF RowWithSource_greater(v[right + 1], v[right]) THEN right - 1
                         ELSE right
            IN AdjustHeapDown([v EXCEPT ![hole + 1] = v[child + 1]], child, len)
    ELSE IF len % 2 = 0 /\ hole = (len - 2) \div 2
       THEN [vec |-> [v EXCEPT ![hole + 1] = v[2 * (hole + 1)]], hole |-> 2 * (hole + 1) - 1]
    ELSE [vec |-> v, hole |-> hole]

\* pop(): the last element is sifted in from the root
PushHeapAfterAdjust(down, value) == PushHeapAt(down.vec, down.hole, 0, value)

Heap_pop(h) ==
    IF Len(h) <= 1 THEN <<>>
    ELSE PushHeapAfterAdjust(AdjustHeapDown(SubSeq(h, 1, Len(h) - 1), 0, Len(h) - 1),
                             h[Len(h)])

Heap_top(h) == h[1]

\* MergeIterator::initialize_heap: the first row of every non-empty input
RECURSIVE InitializeHeap(_, _, _)
InitializeHeap(part_rows, i, heap) ==
    IF i > Len(part_rows) THEN heap
    ELSE InitializeHeap(part_rows, i + 1,
            IF part_rows[i] # <<>>
               THEN Heap_push(heap, RowWithSource(part_rows[i][1], i, 1))
            ELSE heap)

\* MergeIterator::advance_part after the pop: the next row of the same part,
\* if there is one, is pushed
AdvancePart(part_rows, popped, current) ==
    IF current.row_index + 1 <= Len(part_rows[current.part_index])
       THEN Heap_push(popped,
               RowWithSource(part_rows[current.part_index][current.row_index + 1],
                             current.part_index, current.row_index + 1))
    ELSE popped

\* the loop of Merger::merge_rows over MergeIterator::next: pop the top row,
\* advance its part, keep the popped row unless it has the (key, timestamp)
\* of the last row kept
RECURSIVE MergeLoop(_, _, _)
MergeLoop(part_rows, heap, merged_rows) ==
    IF heap = <<>> THEN merged_rows
    ELSE MergeLoop(part_rows,
                   AdvancePart(part_rows, Heap_pop(heap), Heap_top(heap)),
                   IF merged_rows = <<>> \/ ~SameKeyTs(Last(merged_rows), Heap_top(heap).row)
                      THEN Append(merged_rows, Heap_top(heap).row)
                   ELSE merged_rows)

\* ------------------------------------------------------------------ Merger
\* Merger::merge_rows on the rows of the input parts (Part::get_all_rows of
\* each, in input order)
Merger_merge_rows(part_rows) ==
    IF part_rows = <<>> THEN <<>>
    ELSE MergeLoop(part_rows, InitializeHeap(part_rows, 1, <<>>), <<>>)

\* Merger::get_next_part_id: returns the counter and leaves it as it is
Merger_get_next_part_id(next_id) == next_id

\* 10 * 1024 * 1024, the total size at which size_factor reaches 1
SizeFactorBytes == 10485760

\* Merger::calculate_merge_score.  The score
\*   size_ratio * parts_factor * size_factor * 100
\*   = (min_size / max_size) * (1 / n) * (min(total_size, 10 MiB) / 10 MiB) * 100
\* is kept as the exact fraction num / den with the constant factor
\* 100 / 10 MiB left out of every score (it changes neither the sign of a
\* score nor the order of two scores); num = 0 is the score 0.0.
\* sizes and row_counts are disk_usage() and metadata().row_count of the
\* parts at part_indices.
ScoreOf(sizes, row_counts) ==
    IF SumSeq(row_counts) = 0 \/ SumSeq(sizes) = 0 THEN [num |-> 0, den |-> 1]
    ELSE [num |-> MinOf(Range(sizes))
                  * (IF SumSeq(sizes) > SizeFactorBytes THEN SizeFactorBytes
                     ELSE SumSeq(sizes)),
          den |-> MaxOf(Range(sizes)) * Len(sizes)]

\* part_indices are positions of ps
Merger_calculate_merge_score(part_indices, ps, dirs) ==
    IF part_indices = <<>> THEN [num |-> 0, den |-> 1]
    ELSE IF \E k \in DOMAIN part_indices : part_indices[k] > Len(ps)
       THEN [num |-> 0, den |-> 1]
    ELSE ScoreOf([k \in DOMAIN part_indices |->
                    Part_disk_usage(DirOf(dirs, ps[part_indices[k]].metadata.part_id))],
                 [k \in DOMAIN part_indices |-> ps[part_indices[k]].metadata.row_count])

\* a.score > b.score
ScoreGreater(a, b) == a.num * b.den > b.num * a.den

MergeCandidate(idx, ps, dirs) ==
    [part_indices |-> idx, score |-> Merger_calculate_merge_score(idx, ps, dirs)]

\* the index tuples the two loops of select_merge_candidates visit, in visit
\* order: every (i, j) with i < j, then every (i, i+1, i+2)
RECURSIVE PairsFrom(_, _, _)
PairsFrom(i, j, n) ==
    IF i > n THEN <<>>
    ELSE IF j > n THEN PairsFrom(i + 1, i + 2, n)
    ELSE <<(<<i, j>>)>> \o PairsFrom(i, j + 1, n)

\* size_t arithmetic: a - b wraps modulo 2^64; the model wraps at
\* 2^SizeBits, far above every list length that occurs
SizeBits == 16

SizeMinus(a, b) == (a - b) % (2 ^ SizeBits)

\* the triple loop runs for i < parts.size() - 2, an unsigned difference
Triples(n) == [i \in 1..SizeMinus(n, 2) |-> <<i, i + 1, i + 2>>]

\* mutant: the loops are entered whatever the size of the list
SelectVisits_NoSizeCheck(n) == PairsFrom(1, 2, n) \o Triples(n)

\* the index tuples select_merge_candidates can read for a list of n parts:
\* none when it returns at the size check, else those of the pair loops
\* followed by those of the triple loop
SelectVisits(n) == IF n < 2 THEN <<>> ELSE PairsFrom(1, 2, n) \o Triples(n)

KeepIfPositive(candidates, c) ==
    IF c.score.num > 0 THEN Append(candidates, c) ELSE candidates

\* one loop over idxs: a tuple is scored and kept while fewer than
\* max_candidates are held and its score is above 0
RECURSIVE CollectCandidates(_, _, _, _, _)
CollectCandidates(idxs, ps, dirs, max_candidates, candidates) ==
    IF idxs = <<>> \/ Len(candidates) >= max_candidates THEN candidates
    ELSE CollectCandidates(Tail(idxs), ps, dirs, max_candidates,
            KeepIfPositive(candidates, MergeCandidate(Head(idxs), ps, dirs)))

\* std::sort by descending score (insertion sort at these lengths)
RECURSIVE InsertByScore(_, _)
InsertByScore(s, c) ==
    IF s = <<>> THEN <<c>>
    ELSE IF ScoreGreater(c.score, Head(s).score) THEN <<c>> \o s
    ELSE <<Head(s)>> \o InsertByScore(Tail(s), c)

RECURSIVE SortByScore(_)
SortByScore(s) ==
    IF s = <<>> THEN <<>>
    ELSE InsertByScore(SortByScore(SubSeq(s, 1, Len(s) - 1)), s[Len(s)])

\* Merger::select_merge_candidates
Merger_select_merge_candidates(ps, dirs, max_candidates) ==
    SortByScore(CollectCandidates(SelectVisits(Len(ps)), ps, dirs, max_candidates, <<>>))

\* the result of writing new_part into the directory of its id
Written(new_part, dirs) ==
    [part |-> new_part,
     dirs |-> PutDir(dirs, new_part.metadata.part_id,
                     WriteDir(DirOf(dirs, new_part.metadata.part_id), new_part))]

\* mutant: a single part is merged like several, into a new part
Merger_merge_parts_NoShortcut(ps, next_id, dirs) ==
    IF ps = <<>> THEN [threw |-> TRUE, dirs |-> dirs]
    ELSE Written(
            Part_write_from_memtable_rows(
                Part_new(Merger_get_next_part_id(next_id)),
                Merger_merge_rows([i \in DOMAIN ps |->
                    Part_get_all_rows(ps[i], DirOf(dirs, ps[i].metadata.part_id))])),
            dirs)

\* Merger::merge_parts: the part returned and the data directory after the
\* call.  With no part the call throws before it does anything.  One part
\* is handed back as it is.  For more, the new part takes the id the counter
\* shows; the counter is not advanced.
Merger_merge_parts(ps, next_id, dirs) ==
    IF ps = <<>> THEN [threw |-> TRUE, dirs |-> dirs]
    ELSE IF Len(ps) = 1 THEN [part |-> ps[1], dirs |-> dirs]
    ELSE Written(
            Part_write_from_memtable_rows(
                Part_new(Merger_get_next_part_id(next_id)),
                Merger_merge_rows([i \in DOMAIN ps |->
                    Part_get_all_rows(ps[i], DirOf(dirs, ps[i].metadata.part_id))])),
            dirs)

\* ------------------------------------------------------------------ MergeTree
\* The engine's mutable fields as one record e:
\*   memtable       the rows of memtable_, in list order
\*   parts          parts_, the Part objects in list order
\*   next_part_id   merger_.next_part_id_
\*   disk           the part directories under base_path_
\*   allocated      history: the part_id of every part a flush or a merge
\*                  created in this data directory, in creation order

\* MergeTree::get_next_part_id: hands out the counter and advances it
MergeTree_get_next_part_id(next_id) == [id |-> next_id, next_part_id |-> next_id + 1]

\* MergeTree::flush_memtable after the drain: w is the new part written
FlushAppend(e, w, next_id) ==
    [e EXCEPT !.memtable = <<>>,
              !.parts = Append(e.parts, w.part),
              !.next_part_id = next_id,
              !.disk = w.dirs,
              !.allocated = Append(e.allocated, w.part.metadata.part_id)]

FlushWith(e, got) ==
    FlushAppend(e,
        Written(Part_write_from_memtable_rows(Part_new(got.id),
                                              MemTable_get_all_rows(e.memtable)),
                e.disk),
        got.next_part_id)

\* mutant: the flush takes its part_id before it looks at the memtable
MergeTree_flush_memtable_IdFirst(e) ==
    IF e.memtable = <<>>
        THEN [e EXCEPT !.next_part_id = MergeTree_get_next_part_id(@).next_part_id]
    ELSE FlushWith(e, MergeTree_get_next_part_id(e.next_part_id))

\* MergeTree::flush_memtable
MergeTree_flush_memtable(e) ==
    IF e.memtable = <<>> THEN e
    ELSE FlushWith(e, MergeTree_get_next_part_id(e.next_part_id))

\* mutant: the flush waits until the threshold is exceeded
MergeTree_trigger_flush_if_needed_Above(e, cfg) ==
    IF Len(e.memtable) > cfg.memtable_flush_threshold THEN MergeTree_flush_memtable(e)
    ELSE e

\* MergeTree::trigger_flush_if_needed
MergeTree_trigger_flush_if_needed(e, cfg) ==
    IF Len(e.memtable) >= cfg.memtable_flush_threshold THEN MergeTree_flush_memtable(e)
    ELSE e

\* MergeTree::insert
MergeTree_insert(e, cfg, row) ==
    MergeTree_trigger_flush_if_needed(
        [e EXCEPT !.memtable = MemTable_insert(e.memtable, row)], cfg)

\* the rows MergeTree::query collects from the parts: a part is asked only
\* when the metadata its object holds overlaps the range
PartsResults(e, start_key, end_key) ==
    Flatten([i \in DOMAIN e.parts |->
        IF Part_overlaps_range(e.parts[i], start_key, end_key)
           THEN Part_query(e.parts[i], DirOf(e.disk, e.parts[i].metadata.part_id),
                           start_key, end_key)
        ELSE <<>>])

\* mutant: the collected rows are deduplicated without being sorted
MergeTree_query_Unsorted(e, start_key, end_key) ==
    UniqueKeyTs(MemTable_query(e.memtable, start_key, end_key)
                \o PartsResults(e, start_key, end_key))

\* mutant: the collected rows are sorted and not deduplicated
MergeTree_query_NoUnique(e, start_key, end_key) ==
    SortRows(MemTable_query(e.memtable, start_key, end_key)
             \o PartsResults(e, start_key, end_key))

\* MergeTree::query: the rows returned
MergeTree_query(e, start_key, end_key) ==
    UniqueKeyTs(SortRows(MemTable_query(e.memtable, start_key, end_key)
                         \o PartsResults(e, start_key, end_key)))

\* MergeTree::query_key
MergeTree_query_key(e, k) == MergeTree_query(e, k, k)

\* MergeTree::query: the engine afterwards (the parts asked are loaded)
MergeTree_query_effect(e, start_key, end_key) ==
    [e EXCEPT !.parts = [i \in DOMAIN e.parts |->
        IF Part_overlaps_range(e.parts[i], start_key, end_key)
           THEN Part_load(e.parts[i], DirOf(e.disk, e.parts[i].metadata.part_id))
        ELSE e.parts[i]]]

\* MergeTree::part_count
MergeTree_part_count(e) == Len(e.parts)

\* MergeTree::total_rows
MergeTree_total_rows(e) ==
    Len(e.memtable) + SumSeq([i \in DOMAIN e.parts |-> e.parts[i].metadata.row_count])

\* mutant: a merge is wanted already at max_parts parts
MergeTree_should_trigger_merge_AtLimit(e, cfg) == Len(e.parts) >= cfg.max_parts

\* MergeTree::should_trigger_merge
MergeTree_should_trigger_merge(e, cfg) == Len(e.parts) > cfg.max_parts

\* the parts of ps at the positions in sel / not in sel, in list order
PartsAt(ps, sel) ==
    LET picked == SelectSeq([i \in DOMAIN ps |-> i], LAMBDA i : i \in sel)
    IN [k \in DOMAIN picked |-> ps[picked[k]]]

PartsNotAt(ps, sel) ==
    LET kept == SelectSeq([i \in DOMAIN ps |-> i], LAMBDA i : i \notin sel)
    IN [k \in DOMAIN kept |-> ps[kept[k]]]

\* mutant: the merged part is put at the front of the list
MergeAppend_Front(e, remaining_parts, merged, n_merged) ==
    [e EXCEPT !.parts = <<merged.part>> \o remaining_parts,
              !.disk = merged.dirs,
              !.allocated = IF n_merged >= 2
                               THEN Append(e.allocated, merged.part.metadata.part_id)
                            ELSE e.allocated]

\* MergeTree::perform_merge, second block: the merged part is appended
MergeAppend(e, remaining_parts, merged, n_merged) ==
    [e EXCEPT !.parts = Append(remaining_parts, merged.part),
              !.disk = merged.dirs,
              !.allocated = IF n_merged >= 2
                               THEN Append(e.allocated, merged.part.metadata.part_id)
                            ELSE e.allocated]

\* MergeTree::perform_merge with the best candidate's positions sel
MergeSelected(e, sel) ==
    MergeAppend(e, PartsNotAt(e.parts, sel),
                Merger_merge_parts(PartsAt(e.parts, sel), e.next_part_id, e.disk),
                Cardinality(sel))

MergeBest(e, candidates) ==
    IF candidates = <<>> THEN e
    ELSE MergeSelected(e, Range(candidates[1].part_indices))

\* MergeTree::perform_merge
MergeTree_perform_merge(e) ==
    IF Len(e.parts) < 2 THEN e
    ELSE MergeBest(e, Merger_select_merge_candidates(e.parts, e.disk, 1))

\* MergeTree::merge_parts_sync
MergeTree_merge_parts_sync(e, cfg) ==
    IF MergeTree_should_trigger_merge(e, cfg) THEN MergeTree_perform_merge(e) ELSE e

\* the loop of MergeTree::optimize, run by the only thread: it ends when
\* should_trigger_merge is false; when perform_merge returns without having
\* merged (e2 = e), the next turn finds the same engine, so the loop never
\* ends
RECURSIVE OptimizeLoop(_, _)
\* the loop giving up after a turn that merged nothing
OptimizeTurn_GivesUp(e, e2, cfg) ==
    IF e2 = e THEN [returns |-> TRUE, e |-> e] ELSE OptimizeLoop(e2, cfg)

OptimizeTurn(e, e2, cfg) ==
    IF e2 = e THEN [returns |-> FALSE, e |-> e] ELSE OptimizeLoop(e2, cfg)

OptimizeLoop(e, cfg) ==
    IF ~MergeTree_should_trigger_merge(e, cfg) THEN [returns |-> TRUE, e |-> e]
    ELSE OptimizeTurn(e, MergeTree_perform_merge(e), cfg)

\* MergeTree::optimize
MergeTree_optimize(e, cfg) == OptimizeLoop(MergeTree_flush_memtable(e), cfg)

\* mutant: the counter stays at the value the Merger is constructed with
MergeTree_load_existing_parts_FromOne(dirs, history) ==
    LET listed == SelectSeq(Ascending(DOMAIN dirs),
                            LAMBDA id : Part_exists_on_disk(dirs[id]))
    IN [memtable |-> <<>>,
        parts |-> [i \in DOMAIN listed |-> Part_new(listed[i])],
        next_part_id |-> 1,
        disk |-> dirs,
        allocated |-> history]

\* MergeTree::load_existing_parts on a new engine: an unloaded Part per
\* directory part_<id> that exists, in ascending id order, and the counter
\* set past the largest id (the Merger is constructed with 1)
MergeTree_load_existing_parts(dirs, history) ==
    LET listed == SelectSeq(Ascending(DOMAIN dirs),
                            LAMBDA id : Part_exists_on_disk(dirs[id]))
    IN [memtable |-> <<>>,
        parts |-> [i \in DOMAIN listed |-> Part_new(listed[i])],
        next_part_id |-> IF DOMAIN dirs # {} THEN MaxOf(DOMAIN dirs) + 1 ELSE 1,
        disk |-> dirs,
        allocated |-> history]

\* ------------------------------------------------------------------ state
VARIABLES
    config,         \* MergeTreeConfig of the open engine
    memtable,       \* memtable_
    parts,          \* parts_
    next_part_id,   \* merger_.next_part_id_
    disk,           \* the part directories under base_path_
    shutdown_,      \* shutdown_
    pc,             \* "idle", or "optimize" while the caller is inside
                    \* an optimize() that never returns
    allocated,      \* history: the part_id of every part created, in order
    inserted,       \* history: every (key, timestamp) insert was called with
    n_inserts,      \* history: number of insert calls
    reopens,        \* history: number of times the engine was closed and reopened
    session_first_id, \* history: next_part_id when the engine was opened
    last_op,        \* history: the call that returned last: op is "open" right
                    \* after construction, "optimize" after optimize(), "flush"
                    \* after flush_memtable(), "other" after any other call; created is the number of parts the
                    \* call created
    threads,        \* per thread: where it stands inside the call it executes,
                    \* and the locals of that call
    returned        \* history: the (key, timestamp) of every insert that has
                    \* returned to its caller

vars == <<config, memtable, parts, next_part_id, disk, shutdown_, pc,
          allocated, inserted, n_inserts, reopens, session_first_id, last_op,
          threads, returned>>

MaxReopens == 1

\* the engine's mutable fields in the current state
Eng == [memtable |-> memtable, parts |-> parts,
        next_part_id |-> next_part_id, disk |-> disk, allocated |-> allocated]

Becomes(e) ==
    /\ memtable' = e.memtable
    /\ parts' = e.parts
    /\ next_part_id' = e.next_part_id
    /\ disk' = e.disk
    /\ allocated' = e.allocated

\* the threads that call into the engine: two clients and the background
\* merge worker
Clients == {"client1", "client2"}

Worker == "worker"

Threads == Clients \cup {Worker}

\* a thread outside every call
IdleThread ==
    [pc |-> "idle",        \* position inside the call
     ret |-> "idle",       \* who called flush: "insert", "worker" or "idle" (the client)
     row |-> <<>>,         \* insert: the row, as a sequence of one
     range |-> <<>>,       \* query: <<start_key, end_key>>
     rows |-> <<>>,        \* flush_memtable: rows
     id |-> 0,             \* get_next_part_id: id
     new_part |-> <<>>,    \* new_part / merged_part, as a sequence of one
     to_merge |-> <<>>,    \* perform_merge: parts_to_merge
     result |-> <<>>,      \* query: result
     must_see |-> {},      \* history: what had been inserted when the query began
     merging_at_start |-> {},  \* history: what sat in parts being merged then
     merging_at_read |-> {},   \* history: the same when the parts were read
     notified |-> FALSE,   \* worker: background_cv_ was notified while it waits
     quiet |-> FALSE,      \* history, shutdown: no insert was under way at the call
     locks |-> {},         \* SpecLocks: the mutexes the thread holds
     scopes |-> <<>>]      \* SpecLocks: the lock events left in the call it is in

\* MergeTree::MergeTree on an empty data directory, with one of configs
Opened(configs) ==
    /\ config \in configs
    /\ \E e \in {MergeTree_load_existing_parts(<<>>, <<>>)} :
          /\ memtable = e.memtable
          /\ parts = e.parts
          /\ next_part_id = e.next_part_id
          /\ disk = e.disk
          /\ allocated = e.allocated
          /\ session_first_id = e.next_part_id
    /\ shutdown_ = FALSE
    /\ pc = "idle"
    /\ inserted = {}
    /\ n_inserts = 0
    /\ reopens = 0
    /\ last_op = [op |-> "open", created |-> 0]
    /\ threads = [t \in Threads |-> IdleThread]
    /\ returned = {}

\* one client, the background worker not enabled
Init ==
    Opened([memtable_flush_threshold : FlushThresholds,
            max_parts : MaxPartsChoices,
            enable_background_merge : {FALSE}])

\* ------------------------------------------------------------------ actions
\* engine.insert(key, value, timestamp)
Insert(row) ==
    /\ pc = "idle"
    /\ n_inserts < MaxInserts
    /\ Becomes(MergeTree_insert(Eng, config, row))
    /\ inserted' = inserted \cup {KeyTs(row)}
    /\ n_inserts' = n_inserts + 1
    /\ returned' = returned \cup {KeyTs(row)}
    /\ last_op' = [op |-> "other", created |-> Len(allocated') - Len(allocated)]
    /\ UNCHANGED <<config, shutdown_, pc, reopens, session_first_id, threads>>

\* engine.query(start_key, end_key)
Query(start_key, end_key) ==
    /\ pc = "idle"
    /\ Becomes(MergeTree_query_effect(Eng, start_key, end_key))
    /\ last_op' = [op |-> "other", created |-> Len(allocated') - Len(allocated)]
    /\ UNCHANGED <<config, shutdown_, pc, inserted, n_inserts, reopens, session_first_id, threads, returned>>

\* engine.flush_memtable()
FlushMemtable ==
    /\ pc = "idle"
    /\ Becomes(MergeTree_flush_memtable(Eng))
    /\ last_op' = [op |-> "flush", created |-> Len(allocated') - Len(allocated)]
    /\ UNCHANGED <<config, shutdown_, pc, inserted, n_inserts, reopens, session_first_id, threads, returned>>

\* engine.merge_parts_sync()
MergePartsSync ==
    /\ pc = "idle"
    /\ Becomes(MergeTree_merge_parts_sync(Eng, config))
    /\ last_op' = [op |-> "other", created |-> Len(allocated') - Len(allocated)]
    /\ UNCHANGED <<config, shutdown_, pc, inserted, n_inserts, reopens, session_first_id, threads, returned>>

\* engine.optimize(): the call returns, or the caller stays in its loop
Optimize ==
    /\ pc = "idle"
    /\ \E r \in {MergeTree_optimize(Eng, config)} :
          /\ Becomes(r.e)
          /\ pc' = IF r.returns THEN "idle" ELSE "optimize"
          /\ last_op' = IF r.returns
                           THEN [op |-> "optimize",
                                 created |-> Len(r.e.allocated) - Len(allocated)]
                        ELSE last_op
    /\ UNCHANGED <<config, shutdown_, inserted, n_inserts, reopens, session_first_id, threads, returned>>

\* engine.shutdown() with no background thread to join
Shutdown ==
    /\ pc = "idle"
    /\ IF ~shutdown_ THEN Becomes(MergeTree_flush_memtable(Eng))
       ELSE UNCHANGED <<memtable, parts, next_part_id, disk, allocated>>
    /\ shutdown_' = TRUE
    /\ last_op' = [op |-> "other", created |-> Len(allocated') - Len(allocated)]
    /\ UNCHANGED <<config, pc, inserted, n_inserts, reopens, session_first_id, threads, returned>>

\* mutant: the destructor flushes whether or not shutdown was called before
Closed_Flushes == MergeTree_flush_memtable(Eng)

\* the engine is destroyed (~MergeTree calls shutdown, which flushes unless
\* shutdown was called before) and a new engine is constructed on the same
\* base_path with the configuration cfg
Closed == IF ~shutdown_ THEN MergeTree_flush_memtable(Eng) ELSE Eng

Reopen(cfg) ==
    /\ pc = "idle"
    /\ reopens < MaxReopens
    /\ \E e \in {MergeTree_load_existing_parts(Closed.disk, Closed.allocated)} :
          /\ Becomes(e)
          /\ session_first_id' = e.next_part_id
    /\ config' = cfg
    /\ shutdown_' = FALSE
    /\ reopens' = reopens + 1
    /\ last_op' = [op |-> "open", created |-> 0]
    /\ UNCHANGED <<pc, inserted, n_inserts, threads, returned>>

Next ==
    \/ \E row \in Rows : Insert(row)
    \/ \E a \in Keys, b \in Keys : Query(a, b)
    \/ FlushMemtable
    \/ MergePartsSync
    \/ Optimize
    \/ Reopen(config)

Spec == Init /\ [][Next]_vars

\* ------------------------------------------------------------------ threads
\* Several threads inside the engine.  A step is what a thread does while it
\* holds one of the engine's mutexes, or between two such blocks.

MaxConcInserts == 2

InRange(kt, a, b) == a <= kt[1] /\ kt[1] <= b

KeyTsOf(rows) == {KeyTs(rows[i]) : i \in DOMAIN rows}

\* what the single caller of Spec leaves alone
engine_call == <<config, shutdown_, pc, reopens, session_first_id, last_op>>

\* history: the (key, timestamp) stored in the parts a perform_merge of a
\* thread other than t has taken out of parts_ and not yet given back
InFlight(t) ==
    UNION {KeyTsOf(Flatten([i \in DOMAIN threads[u].to_merge |->
                               LoadedPart_get_all_rows(threads[u].to_merge[i])])) :
           u \in Threads \ {t}}

\* flush_memtable, trigger_flush_if_needed or insert returns in a thread (in
\* shutdown, flush_memtable is the last statement)
Returns(t, th) ==
    /\ threads' = [threads EXCEPT ![t] =
                      IF th.ret = "worker"
                         THEN [IdleThread EXCEPT !.pc = "merge_check", !.ret = "worker"]
                      ELSE IF th.ret = "shutdown"
                         THEN [IdleThread EXCEPT !.pc = "shutdown_return",
                                                 !.must_see = th.must_see,
                                                 !.id = th.id,
                                                 !.quiet = th.quiet]
                      ELSE IdleThread]
    /\ returned' = IF th.ret = "insert" THEN returned \cup {KeyTs(th.row[1])}
                   ELSE returned

\* MergeTree::insert, the block under memtable_mutex_
InsertLocked(t, row) ==
    /\ t \in Clients
    /\ threads[t].pc = "idle"
    /\ n_inserts < MaxConcInserts
    /\ memtable' = MemTable_insert(memtable, row)
    /\ inserted' = inserted \cup {KeyTs(row)}
    /\ n_inserts' = n_inserts + 1
    /\ threads' = [threads EXCEPT ![t] =
                      [IdleThread EXCEPT !.pc = "trigger_check", !.ret = "insert",
                                         !.row = <<row>>]]
    /\ UNCHANGED <<parts, next_part_id, disk, allocated, returned, engine_call>>

\* MergeTree::trigger_flush_if_needed, the block under memtable_mutex_
TriggerFlushCheck(t) ==
    /\ threads[t].pc = "trigger_check"
    /\ IF Len(memtable) >= config.memtable_flush_threshold
          THEN /\ threads' = [threads EXCEPT ![t].pc = "flush_drain"]
               /\ UNCHANGED returned
       ELSE Returns(t, threads[t])
    /\ UNCHANGED <<memtable, parts, next_part_id, disk, allocated, inserted,
                   n_inserts, engine_call>>

\* mutant: the drained rows are left in the memtable
Drain_Kept(t, th) ==
    IF memtable = <<>>
       THEN Returns(t, th) /\ UNCHANGED memtable
    ELSE /\ threads' = [threads EXCEPT ![t] =
                           [th EXCEPT !.pc = "flush_get_id",
                                      !.rows = MemTable_get_all_rows(memtable)]]
         /\ UNCHANGED memtable
         /\ UNCHANGED returned

\* MergeTree::flush_memtable, the block under memtable_mutex_
Drain(t, th) ==
    IF memtable = <<>>
       THEN Returns(t, th) /\ UNCHANGED memtable
    ELSE /\ threads' = [threads EXCEPT ![t] =
                           [th EXCEPT !.pc = "flush_get_id",
                                      !.rows = MemTable_get_all_rows(memtable)]]
         /\ memtable' = <<>>
         /\ UNCHANGED returned

FlushDrain(t) ==
    /\ threads[t].pc = "flush_drain"
    /\ Drain(t, threads[t])
    /\ UNCHANGED <<parts, next_part_id, disk, allocated, inserted, n_inserts,
                   engine_call>>

\* a client calls flush_memtable
CallFlushMemtable(t) ==
    /\ t \in Clients
    /\ threads[t].pc = "idle"
    /\ Drain(t, IdleThread)
    /\ UNCHANGED <<parts, next_part_id, disk, allocated, inserted, n_inserts,
                   engine_call>>

\* MergeTree::get_next_part_id, the read of the counter (no mutex is held)
FlushGetPartId(t) ==
    /\ threads[t].pc = "flush_get_id"
    /\ threads' = [threads EXCEPT ![t].pc = "flush_write",
                                  ![t].id = Merger_get_next_part_id(next_part_id)]
    /\ UNCHANGED <<memtable, parts, next_part_id, disk, allocated, inserted,
                   n_inserts, returned, engine_call>>

\* MergeTree::get_next_part_id, the write of the counter, and the part is
\* written to disk (no mutex is held)
PartWrittenBy(t, th, w) ==
    /\ disk' = w.dirs
    /\ allocated' = Append(allocated, w.part.metadata.part_id)
    /\ threads' = [threads EXCEPT ![t] = [th EXCEPT !.new_part = <<w.part>>]]

FlushWritePart(t) ==
    /\ threads[t].pc = "flush_write"
    /\ next_part_id' = threads[t].id + 1
    /\ PartWrittenBy(t, [threads[t] EXCEPT !.pc = "flush_push_back"],
           Written(Part_write_from_memtable_rows(Part_new(threads[t].id),
                                                 threads[t].rows), disk))
    /\ UNCHANGED <<memtable, parts, inserted, n_inserts, returned, engine_call>>

\* MergeTree::flush_memtable, the block under parts_mutex_
FlushPushBack(t) ==
    /\ threads[t].pc = "flush_push_back"
    /\ parts' = Append(parts, threads[t].new_part[1])
    /\ Returns(t, threads[t])
    /\ UNCHANGED <<memtable, next_part_id, disk, allocated, inserted, n_inserts,
                   engine_call>>

\* MergeTree::query, the block under memtable_mutex_
QueryMemtable(t, start_key, end_key) ==
    /\ t \in Clients
    /\ threads[t].pc = "idle"
    /\ threads' = [threads EXCEPT ![t] =
          [IdleThread EXCEPT
              !.pc = "query_parts",
              !.range = <<start_key, end_key>>,
              !.result = MemTable_query(memtable, start_key, end_key),
              !.must_see = {kt \in returned : InRange(kt, start_key, end_key)},
              !.merging_at_start =
                  {kt \in InFlight(t) : InRange(kt, start_key, end_key)}]]
    /\ UNCHANGED <<memtable, parts, next_part_id, disk, allocated, inserted,
                   n_inserts, returned, engine_call>>

\* MergeTree::query, the block under parts_mutex_, and the sort and
\* deduplication of what was collected
QueryParts(t) ==
    /\ threads[t].pc = "query_parts"
    /\ threads' = [threads EXCEPT ![t] =
          [threads[t] EXCEPT
              !.pc = "query_return",
              !.result = UniqueKeyTs(SortRows(
                  threads[t].result
                  \o PartsResults(Eng, threads[t].range[1], threads[t].range[2]))),
              !.merging_at_read = InFlight(t)]]
    /\ parts' = MergeTree_query_effect(Eng, threads[t].range[1],
                                       threads[t].range[2]).parts
    /\ UNCHANGED <<memtable, next_part_id, disk, allocated, inserted, n_inserts,
                   returned, engine_call>>

\* MergeTree::query returns its result
QueryReturn(t) ==
    /\ threads[t].pc = "query_return"
    /\ threads' = [threads EXCEPT ![t] = IdleThread]
    /\ UNCHANGED <<memtable, parts, next_part_id, disk, allocated, inserted,
                   n_inserts, returned, engine_call>>

\* MergeTree::should_trigger_merge in a thread
ShouldMerge(t, th) ==
    threads' = [threads EXCEPT ![t] =
                   IF MergeTree_should_trigger_merge(Eng, config)
                      THEN [th EXCEPT !.pc = "merge_extract"]
                   ELSE IdleThread]

\* a client calls merge_parts_sync
CallMergePartsSync(t) ==
    /\ t \in Clients
    /\ threads[t].pc = "idle"
    /\ ShouldMerge(t, IdleThread)
    /\ UNCHANGED <<memtable, parts, next_part_id, disk, allocated, inserted,
                   n_inserts, returned, engine_call>>

\* MergeTree::background_merge_worker after trigger_flush_if_needed
WorkerShouldMerge(t) ==
    /\ threads[t].pc = "merge_check"
    /\ ShouldMerge(t, threads[t])
    /\ UNCHANGED <<memtable, parts, next_part_id, disk, allocated, inserted,
                   n_inserts, returned, engine_call>>

\* mutant: the selected parts stay in the list while they are merged
Extract_Kept(t, candidates) ==
    IF candidates = <<>>
       THEN /\ threads' = [threads EXCEPT ![t] = IdleThread]
            /\ UNCHANGED parts
    ELSE /\ threads' = [threads EXCEPT ![t] =
               [threads[t] EXCEPT
                   !.pc = "merge_write",
                   !.to_merge = PartsAt(parts, Range(candidates[1].part_indices))]]
         /\ UNCHANGED parts

\* MergeTree::perform_merge, the first block under parts_mutex_
Extract(t, candidates) ==
    IF candidates = <<>>
       THEN /\ threads' = [threads EXCEPT ![t] = IdleThread]
            /\ UNCHANGED parts
    ELSE /\ threads' = [threads EXCEPT ![t] =
               [threads[t] EXCEPT
                   !.pc = "merge_write",
                   !.to_merge = PartsAt(parts, Range(candidates[1].part_indices))]]
         /\ parts' = PartsNotAt(parts, Range(candidates[1].part_indices))

MergeExtract(t) ==
    /\ threads[t].pc = "merge_extract"
    /\ Extract(t, Merger_select_merge_candidates(parts, disk, 1))
    /\ UNCHANGED <<memtable, next_part_id, disk, allocated, inserted, n_inserts,
                   returned, engine_call>>

\* Merger::merge_parts on the extracted parts (no mutex is held)
MergeWritePart(t) ==
    /\ threads[t].pc = "merge_write"
    /\ PartWrittenBy(t, [threads[t] EXCEPT !.pc = "merge_push_back"],
                     Merger_merge_parts(threads[t].to_merge, next_part_id, disk))
    /\ UNCHANGED <<memtable, parts, next_part_id, inserted, n_inserts, returned,
                   engine_call>>

\* MergeTree::perform_merge, the second block under parts_mutex_
MergePushBack(t) ==
    /\ threads[t].pc = "merge_push_back"
    /\ parts' = Append(parts, threads[t].new_part[1])
    /\ threads' = [threads EXCEPT ![t] = IdleThread]
    /\ UNCHANGED <<memtable, next_part_id, disk, allocated, inserted, n_inserts,
                   returned, engine_call>>

\* MergeTree::background_merge_worker: the wait ends and shutdown_ is not set
WorkerWake(t) ==
    /\ t = Worker
    /\ config.enable_background_merge
    /\ ~shutdown_
    /\ threads[t].pc = "idle"
    /\ threads' = [threads EXCEPT ![t] =
                      [IdleThread EXCEPT !.pc = "trigger_check", !.ret = "worker"]]
    /\ UNCHANGED <<memtable, parts, next_part_id, disk, allocated, inserted,
                   n_inserts, returned, engine_call>>

\* two clients and the background worker; the memtable is flushed at
\* MaxConcInserts rows and a merge is wanted above one part
InitConc ==
    Opened([memtable_flush_threshold : {MaxConcInserts},
            max_parts : {1},
            enable_background_merge : {TRUE}])

NextConc ==
    \E t \in Threads :
        \/ \E row \in Rows : InsertLocked(t, row)
        \/ TriggerFlushCheck(t)
        \/ CallFlushMemtable(t)
        \/ FlushDrain(t)
        \/ FlushGetPartId(t)
        \/ FlushWritePart(t)
        \/ FlushPushBack(t)
        \/ \E a \in Keys, b \in Keys : QueryMemtable(t, a, b)
        \/ QueryParts(t)
        \/ QueryReturn(t)
        \/ CallMergePartsSync(t)
        \/ WorkerShouldMerge(t)
        \/ MergeExtract(t)
        \/ MergeWritePart(t)
        \/ MergePushBack(t)
        \/ WorkerWake(t)

SpecConc == InitConc /\ [][NextConc]_vars

\* ------------------------------------------------------------------ values
\* One client as in Spec, inserting rows that can agree in (key, timestamp)
\* and differ in value; the engine is not reopened.
MaxValues == 2

ValueRows == {Row(k, v, 1) : k \in Keys, v \in 1..MaxValues}

NextValues ==
    \/ \E row \in ValueRows : Insert(row)
    \/ \E a \in Keys, b \in Keys : Query(a, b)
    \/ FlushMemtable
    \/ MergePartsSync
    \/ Optimize

SpecValues == Init /\ [][NextValues]_vars

\* ------------------------------------------------------------------ failures
\* The threads of SpecConc, and writes that fail.

\* Merger::merge_parts throws while it writes the merged part (the failure
\* comes before a file of the part exists: create_directories or the first
\* open fails).  perform_merge has no handler, so parts_to_merge, the only
\* owner of the extracted parts, is destroyed during unwinding.  In the
\* background worker the exception is caught and logged and the loop goes
\* on; thrown in a client's call it leaves the engine, and the thread is back
\* in its caller (which goes on, or ends the process: nothing happens then).
\* mutant: the worker has no handler and its thread ends
MergeWriteFails_Uncaught(t) ==
    /\ threads[t].pc = "merge_write"
    /\ Len(threads[t].to_merge) >= 2
    /\ threads' = [threads EXCEPT ![t] =
          [IdleThread EXCEPT !.pc = IF t = Worker THEN "exited" ELSE "idle"]]
    /\ UNCHANGED <<memtable, parts, next_part_id, disk, allocated, inserted,
                   n_inserts, returned, engine_call>>

\* (ret = "caught" marks the worker's passage through its handler; the
\* worker is then at the top of its loop)
MergeWriteFails(t) ==
    /\ threads[t].pc = "merge_write"
    /\ Len(threads[t].to_merge) >= 2
    /\ threads' = [threads EXCEPT ![t] =
          [IdleThread EXCEPT !.ret = IF t = Worker THEN "caught" ELSE "idle"]]
    /\ UNCHANGED <<memtable, parts, next_part_id, disk, allocated, inserted,
                   n_inserts, returned, engine_call>>

\* Part::write_from_memtable_rows throws in flush_memtable, with nothing
\* written: the Part was constructed with get_next_part_id(), the drained
\* rows are local to the call.  Caught in the worker, thrown to the caller
\* of a client's call.
FlushWriteFails(t) ==
    /\ threads[t].pc = "flush_write"
    /\ next_part_id' = threads[t].id + 1
    /\ threads' = [threads EXCEPT ![t] =
          [IdleThread EXCEPT !.ret = IF t = Worker THEN "caught" ELSE "idle"]]
    /\ UNCHANGED <<memtable, parts, disk, allocated, inserted, n_inserts,
                   returned, engine_call>>

NextFail ==
    \/ NextConc
    \/ \E t \in Threads : MergeWriteFails(t)

SpecFail == InitConc /\ [][NextFail]_vars

\* mutant: the counter is left where it was when the write fails
FlushFails_IdKept ==
    /\ pc = "idle"
    /\ memtable # <<>>
    /\ Becomes([Eng EXCEPT !.memtable = <<>>])
    /\ last_op' = [op |-> "threw", created |-> 0]
    /\ UNCHANGED <<config, shutdown_, pc, inserted, n_inserts, reopens,
                   session_first_id, threads, returned>>

\* engine.flush_memtable() of the single caller, when the write of the new
\* part fails with nothing written (Part::write_granules throws at
\* create_directory): the rows have been taken out of the memtable and the
\* Part has been constructed with get_next_part_id(); flush_memtable catches
\* nothing, so the local rows and the Part are destroyed and the call throws
FlushFails ==
    /\ pc = "idle"
    /\ memtable # <<>>
    /\ Becomes([Eng EXCEPT
           !.memtable = <<>>,
           !.next_part_id = MergeTree_get_next_part_id(next_part_id).next_part_id])
    /\ last_op' = [op |-> "threw", created |-> 0]
    /\ UNCHANGED <<config, shutdown_, pc, inserted, n_inserts, reopens,
                   session_first_id, threads, returned>>

SpecFlushFail == Init /\ [][Next \/ FlushFails]_vars

\* The client of Spec, which can also call shutdown() and go on using the
\* engine after it (no member function looks at shutdown_ but shutdown itself
\* and the worker).
SpecStop == Init /\ [][Next \/ Shutdown]_vars

\* ------------------------------------------------------------------ shutdown
\* Clients that insert, flush and shut the engine down, and the background
\* worker followed through its wait.  Here the worker's pc "idle" is the top
\* of its loop (WorkerWake of SpecConc is the passage from there through a
\* wait that times out).

\* MergeTree::background_merge_worker, the loop condition
WorkerLoop(t) ==
    /\ t = Worker
    /\ config.enable_background_merge
    /\ threads[t].pc = "idle"
    /\ threads' = [threads EXCEPT ![t].pc =
                      IF shutdown_ THEN "exited" ELSE "wait_lock"]
    /\ UNCHANGED <<memtable, parts, next_part_id, disk, allocated, inserted,
                   n_inserts, returned, engine_call>>

\* wait_for: background_mutex_ is locked and the predicate tested; with the
\* predicate false the thread, in a second step, blocks and releases the mutex
WorkerWait(t) ==
    /\ threads[t].pc \in {"wait_lock", "wait_locked"}
    /\ threads' = [threads EXCEPT
          ![t].pc = IF threads[t].pc = "wait_locked" THEN "waiting"
                    ELSE IF shutdown_ THEN "woken"
                    ELSE "wait_locked",
          ![t].notified = FALSE]
    /\ UNCHANGED <<memtable, parts, next_part_id, disk, allocated, inserted,
                   n_inserts, returned, engine_call>>

\* the blocked worker was notified: wait_for tests the predicate again, and
\* returns when it is true
WorkerNotified(t) ==
    /\ threads[t].pc = "waiting"
    /\ threads[t].notified
    /\ threads' = [threads EXCEPT ![t].pc = IF shutdown_ THEN "woken" ELSE "waiting",
                                  ![t].notified = FALSE]
    /\ UNCHANGED <<memtable, parts, next_part_id, disk, allocated, inserted,
                   n_inserts, returned, engine_call>>

\* merge_interval_seconds have passed: wait_for returns
WorkerTimeout(t) ==
    /\ threads[t].pc = "waiting"
    /\ threads' = [threads EXCEPT ![t].pc = "woken", ![t].notified = FALSE]
    /\ UNCHANGED <<memtable, parts, next_part_id, disk, allocated, inserted,
                   n_inserts, returned, engine_call>>

\* if (!shutdown_) after the wait: trigger_flush_if_needed is entered, or the
\* loop condition is next
WorkerProceed(t) ==
    /\ threads[t].pc = "woken"
    /\ threads' = [threads EXCEPT ![t] =
                      IF shutdown_ THEN IdleThread
                      ELSE [IdleThread EXCEPT !.pc = "trigger_check", !.ret = "worker"]]
    /\ UNCHANGED <<memtable, parts, next_part_id, disk, allocated, inserted,
                   n_inserts, returned, engine_call>>

\* MergeTree::shutdown, shutdown_.exchange(true): a call that finds the flag
\* set returns at once
ShutdownExchange(t) ==
    /\ t \in Clients
    /\ threads[t].pc = "idle"
    /\ shutdown_' = TRUE
    /\ threads' = [threads EXCEPT ![t] =
          IF shutdown_ THEN IdleThread
          ELSE [IdleThread EXCEPT
                   !.pc = "shutdown_lock",
                   !.ret = "shutdown",
                   !.must_see = KeyTsOf(memtable),
                   !.id = n_inserts,
                   !.quiet = \A u \in Threads : threads[u].ret # "insert"]]
    /\ UNCHANGED <<memtable, parts, next_part_id, disk, allocated, inserted,
                   n_inserts, returned, config, pc, reopens, session_first_id,
                   last_op>>

ShutdownLock_NoMutex(t) ==
    /\ threads[t].pc = "shutdown_lock"
    /\ threads' = [threads EXCEPT ![t].pc = "shutdown_notify"]
    /\ UNCHANGED <<memtable, parts, next_part_id, disk, allocated, inserted,
                   n_inserts, returned, engine_call>>

\* MergeTree::shutdown, background_mutex_ is locked and unlocked: possible
\* when the worker does not hold it
ShutdownLock(t) ==
    /\ threads[t].pc = "shutdown_lock"
    /\ threads[Worker].pc # "wait_locked"
    /\ threads' = [threads EXCEPT ![t].pc = "shutdown_notify"]
    /\ UNCHANGED <<memtable, parts, next_part_id, disk, allocated, inserted,
                   n_inserts, returned, engine_call>>

\* MergeTree::shutdown, background_cv_.notify_all(): reaches a worker that
\* is blocked in the wait
ShutdownNotify(t) ==
    /\ threads[t].pc = "shutdown_notify"
    /\ threads' = [threads EXCEPT ![t].pc = "shutdown_join",
                                  ![Worker].notified = (threads[Worker].pc = "waiting")]
    /\ UNCHANGED <<memtable, parts, next_part_id, disk, allocated, inserted,
                   n_inserts, returned, engine_call>>

\* MergeTree::shutdown, background_thread_.join() has returned (or there is
\* no thread to join); flush_memtable is next
ShutdownJoin(t) ==
    /\ threads[t].pc = "shutdown_join"
    /\ config.enable_background_merge => threads[Worker].pc = "exited"
    /\ threads' = [threads EXCEPT ![t].pc = "flush_drain"]
    /\ UNCHANGED <<memtable, parts, next_part_id, disk, allocated, inserted,
                   n_inserts, returned, engine_call>>

\* MergeTree::shutdown returns
ShutdownReturn(t) ==
    /\ threads[t].pc = "shutdown_return"
    /\ threads' = [threads EXCEPT ![t] = IdleThread]
    /\ UNCHANGED <<memtable, parts, next_part_id, disk, allocated, inserted,
                   n_inserts, returned, engine_call>>

NextShutdown ==
    \E t \in Threads :
        \/ \E row \in Rows : InsertLocked(t, row)
        \/ TriggerFlushCheck(t)
        \/ CallFlushMemtable(t)
        \/ FlushDrain(t)
        \/ FlushGetPartId(t)
        \/ FlushWritePart(t)
        \/ FlushPushBack(t)
        \/ WorkerShouldMerge(t)
        \/ MergeExtract(t)
        \/ MergeWritePart(t)
        \/ MergePushBack(t)
        \/ WorkerLoop(t)
        \/ WorkerWait(t)
        \/ WorkerNotified(t)
        \/ WorkerTimeout(t)
        \/ WorkerProceed(t)
        \/ ShutdownExchange(t)
        \/ ShutdownLock(t)
        \/ ShutdownNotify(t)
        \/ ShutdownJoin(t)
        \/ ShutdownReturn(t)

SpecShutdown == InitConc /\ [][NextShutdown]_vars

\* Fair scheduling: a thread that is inside a call, or the worker inside its
\* loop, takes its next step when that step stays possible.  Nothing obliges
\* a client to start a call, nor the wait of the worker to time out.
Step(t) ==
    \/ TriggerFlushCheck(t)
    \/ FlushDrain(t)
    \/ FlushGetPartId(t)
    \/ FlushPushBack(t)
    \/ MergePushBack(t)
    \/ WorkerLoop(t)
    \/ WorkerWait(t)
    \/ WorkerNotified(t)
    \/ WorkerProceed(t)
    \/ ShutdownLock(t)
    \/ ShutdownNotify(t)
    \/ ShutdownJoin(t)
    \/ ShutdownReturn(t)

\* The steps that select the parts to merge and that write a part are
\* possible whenever a thread stands before them, and they move it on: for
\* these, fair scheduling is that no thread stays before one forever.
FairShutdown ==
    /\ SpecShutdown
    /\ \A t \in Threads : WF_vars(Step(t))
    /\ \A t \in Threads :
          \A at \in {"flush_write", "merge_check", "merge_extract", "merge_write"} :
              []<>(threads[t].pc # at)

\* the threads of SpecShutdown, fairly scheduled, and writes that fail
FairFail ==
    /\ InitConc
    /\ [][\/ NextShutdown
          \/ \E t \in Threads : MergeWriteFails(t)
          \/ \E t \in Threads : FlushWriteFails(t)]_vars
    /\ \A t \in Threads : WF_vars(Step(t))
    /\ \A t \in Threads :
          \A at \in {"flush_write", "merge_check", "merge_extract", "merge_write"} :
              []<>(threads[t].pc # at)

\* ------------------------------------------------------------------ locks
\* The engine's calls reduced to what they do to the three mutexes: each
\* call is the sequence of lock and unlock events of one of its paths.

MaxMergeRounds == 1

Scope_Kept(m) == <<[op |-> "lock", m |-> m]>>

\* std::lock_guard / std::unique_lock over a block: locked at the
\* declaration, unlocked at the closing brace
Scope(m) == <<[op |-> "lock", m |-> m], [op |-> "unlock", m |-> m]>>

\* the paths through the call named op, each the lock events it goes through
\* (optimize with at most MaxMergeRounds merges)
LockScopes(op) ==
    LET M == Scope("memtable_mutex_")
        P == Scope("parts_mutex_")
        B == Scope("background_mutex_")
        flush_memtable == {M, M \o P}
        trigger_flush_if_needed == {M} \cup {M \o f : f \in flush_memtable}
        perform_merge == {P, P \o P}
        merge_if_needed == {P} \cup {P \o m : m \in perform_merge}
        RECURSIVE rounds(_)
        rounds(n) ==
            IF n = 0 THEN {P}
            ELSE {P} \cup {P \o m \o r : m \in perform_merge, r \in rounds(n - 1)}
    IN  CASE op = "insert" -> {M \o t : t \in trigger_flush_if_needed}
          [] op = "query" -> {M \o P}
          [] op = "flush_memtable" -> flush_memtable
          [] op = "merge_parts_sync" -> merge_if_needed
          [] op = "optimize" ->
                {f \o r : f \in flush_memtable, r \in rounds(MaxMergeRounds)}
          [] op = "shutdown" -> {<<>>} \cup {B \o f : f \in flush_memtable}
          [] op = "part_count" -> {P}
          [] op = "total_rows" -> {M \o P}
          [] op = "memory_usage" -> {M \o P}
          [] op = "disk_usage" -> {P}
          [] op = "background_merge_worker" ->
                {B} \cup {B \o t \o m : t \in trigger_flush_if_needed,
                                        m \in merge_if_needed}

\* a client enters a call, the worker an iteration of its loop
LockCall(t) ==
    /\ threads[t].scopes = <<>>
    /\ \E op \in (IF t = Worker THEN {"background_merge_worker"}
                   ELSE {"insert", "query", "flush_memtable", "merge_parts_sync",
                         "optimize", "shutdown", "part_count", "total_rows",
                         "memory_usage", "disk_usage"}) :
          \E path \in LockScopes(op) :
              /\ path # <<>>
              /\ threads' = [threads EXCEPT ![t].scopes = path]
    /\ UNCHANGED <<memtable, parts, next_part_id, disk, allocated, inserted,
                   n_inserts, returned, engine_call>>

\* the next lock event of a thread: a std::mutex is locked when no thread
\* holds it
LockStep(t) ==
    /\ threads[t].scopes # <<>>
    /\ LET e == Head(threads[t].scopes)
       IN  /\ e.op = "lock" => \A u \in Threads : e.m \notin threads[u].locks
           /\ threads' = [threads EXCEPT
                 ![t].scopes = Tail(threads[t].scopes),
                 ![t].locks = IF e.op = "lock" THEN threads[t].locks \cup {e.m}
                              ELSE threads[t].locks \ {e.m}]
    /\ UNCHANGED <<memtable, parts, next_part_id, disk, allocated, inserted,
                   n_inserts, returned, engine_call>>

NextLocks == \E t \in Threads : LockCall(t) \/ LockStep(t)

SpecLocks == InitConc /\ [][NextLocks]_vars

\* ------------------------------------------------------------------ claims

\* engine.query(a, b) in the current state
QueryNow(a, b) == MergeTree_query(Eng, a, b)

\* C1: with the background worker off, one client and no reopen, after any
\* sequence of insert, flush_memtable, merge_parts_sync and optimize calls
\* query(a, b) holds exactly one row for every (key, timestamp) inserted with
\* a <= key <= b and no row with a (key, timestamp) never inserted.
C1_QueryComplete ==
    reopens = 0 =>
        \A a \in Keys, b \in Keys :
            /\ KeyTsOf(QueryNow(a, b)) = {kt \in inserted : InRange(kt, a, b)}
            /\ Len(QueryNow(a, b)) = Cardinality({kt \in inserted : InRange(kt, a, b)})

\* a (key, timestamp) inserted twice sits in a part a merge wrote while
\* another row is still in the memtable, and a range leaves a row out
C1_Witness ==
    /\ reopens = 0
    /\ n_inserts = 3
    /\ Cardinality(inserted) = 2
    /\ Len(parts) = 1
    /\ Len(allocated) = 3
    /\ memtable # <<>>
    /\ Len(QueryNow(0, MaxKey)) = 2
    /\ \E a \in Keys, b \in Keys : Len(QueryNow(a, b)) = 1

IsOrdered(R) == \A i \in 1..(Len(R) - 1) : ~RowLess(R[i + 1], R[i])

AllWithin(R, a, b) == \A i \in DOMAIN R : a <= R[i].key /\ R[i].key <= b

NoTwoSameKeyTs(R) ==
    \A i \in DOMAIN R, j \in DOMAIN R : i # j => ~SameKeyTs(R[i], R[j])

\* C2: in every engine state the result of query(a, b) is in ascending
\* (key, timestamp) order and holds only rows with a <= key <= b, and
\* query_key(k) returns what query(k, k) returns.
C2_QueryOrdered ==
    /\ \A a \in Keys, b \in Keys :
          IsOrdered(QueryNow(a, b)) /\ AllWithin(QueryNow(a, b), a, b)
    /\ \A k \in Keys : MergeTree_query_key(Eng, k) = QueryNow(k, k)

\* a result of three rows, the first row the parts give sorting behind the
\* first memtable row (which is collected before it), while a narrower
\* range returns fewer rows
C2_Witness ==
    /\ memtable # <<>>
    /\ parts # <<>>
    /\ Len(QueryNow(0, MaxKey)) = 3
    /\ RowLess(PartsResults(Eng, 0, MaxKey)[1], memtable[1])
    /\ \E k \in Keys : Len(QueryNow(k, k)) = 2

\* C3: query never returns two rows with equal (key, timestamp), wherever
\* the copies sit (memtable, one part, several parts), and the rows of one
\* key with different timestamps are all returned.
C3_QueryDeduplicated ==
    /\ \A a \in Keys, b \in Keys : NoTwoSameKeyTs(QueryNow(a, b))
    /\ reopens = 0 =>
          \A k \in Keys :
              {r.timestamp : r \in Range(MergeTree_query_key(Eng, k))}
                  = {kt[2] : kt \in {x \in inserted : x[1] = k}}

\* copies of one (key, timestamp) in the memtable and in two parts
C3_Witness ==
    /\ reopens = 0
    /\ Len(parts) = 2
    /\ \E r \in Rows :
          /\ KeyTs(r) \in KeyTsOf(memtable)
          /\ \A i \in DOMAIN parts :
                KeyTs(r) \in KeyTsOf(LoadedPart_get_all_rows(parts[i]))
          /\ Len(MergeTree_query_key(Eng, r.key)) = 1

\* the engine is closed with nothing buffered (flush_memtable has returned
\* and nothing was inserted since) and opened again
ReopenFlushed == Reopen(config) /\ memtable = <<>>

\* C4: after flush_memtable returned, the engine was closed and a new engine
\* opened on the same base_path, query(a, b) on the new engine returns the
\* rows it returned before the close, for every range and with no other
\* query issued first.
C4_ReopenKeepsQueries ==
    [][ReopenFlushed =>
          \A a \in Keys, b \in Keys :
              MergeTree_query(Eng', a, b) = MergeTree_query(Eng, a, b)]_vars

\* C5: under the same conditions total_rows() of the new engine equals
\* total_rows() before the close.
C5_ReopenKeepsTotalRows ==
    [][ReopenFlushed => MergeTree_total_rows(Eng') = MergeTree_total_rows(Eng)]_vars

\* C6: once insert(r) has returned, every query(a, b) with a <= r.key <= b
\* that starts afterwards returns a row with r's (key, timestamp), also while
\* another thread is inside flush_memtable.  (Rows sitting in parts that a
\* merge holds while the query reads are left out here.)
C6_QuerySeesReturnedInserts ==
    \A t \in Clients :
        threads[t].pc = "query_return" =>
            (threads[t].must_see \ threads[t].merging_at_read)
                \subseteq KeyTsOf(threads[t].result)

\* C7: a query(a, b) running while a perform_merge is in flight (the parts
\* extracted, the merged part not yet appended) returns every row of the
\* parts being merged whose key lies in [a, b].
C7_QuerySeesPartsInMerge ==
    \A t \in Clients :
        threads[t].pc = "query_return" =>
            (threads[t].merging_at_start \cap threads[t].merging_at_read)
                \subseteq KeyTsOf(threads[t].result)

\* C8: every part a flush or a merge creates receives a part_id greater than
\* every part_id given out before it.
C8_PartIdsIncrease ==
    \A i \in DOMAIN allocated, j \in DOMAIN allocated :
        i < j => allocated[i] < allocated[j]

\* C9: once a part directory has been written, no later flush or merge
\* writes into it: as long as it exists its content stays what it was.
C9_PartDirectoriesImmutable ==
    [][\A id \in DOMAIN disk : id \in DOMAIN disk' => disk'[id] = disk[id]]_vars

\* the parts of the list were all created since the engine was opened
AllSession(ps) == \A i \in DOMAIN ps : ps[i].metadata.part_id >= session_first_id

\* C10: on an engine whose parts were all created in the current session
\* (background worker off, max_parts >= 1), optimize() returns, with the
\* memtable empty and part_count <= max_parts.
C10_OptimizeBoundsParts ==
    [][(Optimize /\ config.max_parts >= 1 /\ AllSession(parts)) =>
          /\ pc' = "idle"
          /\ memtable' = <<>>
          /\ MergeTree_part_count(Eng') <= config.max_parts]_vars

\* an optimize() that flushed the memtable and merged twice has returned
C10_Witness ==
    /\ last_op = [op |-> "optimize", created |-> 3]
    /\ pc = "idle"
    /\ config.max_parts = 1
    /\ AllSession(parts)
    /\ Len(parts) = 1

\* C11: on an engine opened over a directory that holds more than max_parts
\* parts (max_parts >= 1, memtable empty, nothing called since the opening),
\* optimize() returns, with part_count <= max_parts.
C11_OptimizeAfterReopen ==
    [][(/\ Optimize
        /\ reopens >= 1
        /\ last_op.op = "open"
        /\ memtable = <<>>
        /\ config.max_parts >= 1
        /\ MergeTree_part_count(Eng) > config.max_parts) =>
          /\ pc' = "idle"
          /\ MergeTree_part_count(Eng') <= config.max_parts]_vars

\* C12: for every range [a, b], query(a, b) right before optimize() and
\* right after it return the same rows (key, value, timestamp), also when
\* rows inserted with one (key, timestamp) differ in value.  (Both results
\* are sorted by (key, timestamp) and hold a (key, timestamp) once, so they
\* are equal as multisets exactly when they are equal as sequences.)
C12_OptimizeKeepsQueries ==
    [][(Optimize /\ reopens = 0 /\ pc' = "idle") =>
          \A a \in Keys, b \in Keys :
              MergeTree_query(Eng', a, b) = MergeTree_query(Eng, a, b)]_vars

\* the parts perform_merge takes out of the list in the current state
MergeInputs ==
    PartsAt(parts, Range(Merger_select_merge_candidates(parts, disk, 1)[1].part_indices))

\* the rows R hold every (key, timestamp) of the parts ps, each once
HoldsEachOnce(R, ps) ==
    /\ NoTwoSameKeyTs(R)
    /\ KeyTsOf(R) = UNION {KeyTsOf(LoadedPart_get_all_rows(ps[i])) : i \in DOMAIN ps}

\* C13: the part a merge of two or more parts produces holds each
\* (key, timestamp) of its inputs exactly once: different timestamps of a
\* key are all kept, equal (key, timestamp) collapse to one row wherever the
\* copies sit in the inputs.
C13_MergedPartHoldsEachOnce ==
    [][(/\ MergePartsSync
        /\ reopens = 0
        /\ Len(allocated') = Len(allocated) + 1) =>
          HoldsEachOnce(LoadedPart_get_all_rows(parts'[Len(parts')]), MergeInputs)]_vars

\* the ids of the part directories that exist in dirs
PartDirectories(dirs) == {id \in DOMAIN dirs : Part_exists_on_disk(dirs[id])}

\* C14: after a perform_merge that merged, the directories of the parts it
\* consumed no longer exist, and the part directories under base_path are
\* exactly those of the parts in the list.
C14_MergedPartsDeleted ==
    [][(/\ MergePartsSync
        /\ reopens = 0
        /\ Len(allocated') = Len(allocated) + 1) =>
          /\ \A i \in DOMAIN MergeInputs :
                MergeInputs[i].metadata.part_id \notin PartDirectories(disk')
          /\ PartDirectories(disk')
                = {parts'[i].metadata.part_id : i \in DOMAIN parts'}]_vars

\* the parts ps sit in list, in the order they have in ps
AreBackIn(ps, list) ==
    SelectSeq(list, LAMBDA p : \E i \in DOMAIN ps : ps[i] = p) = ps

\* C15: when writing the merged part fails inside perform_merge, the process
\* ends or the extracted parts are back in the parts list in their order;
\* the engine never goes on without them.  Stated for the background worker,
\* where the exception is caught and the process goes on.
C15_FailedMergeKeepsParts ==
    [][MergeWriteFails(Worker) =>
          AreBackIn(threads[Worker].to_merge, parts')]_vars

\* how many times the row r occurs in rows
Count(rows, r) == Cardinality({i \in DOMAIN rows : rows[i] = r})

\* the part p holds the rows buffered plus the row inserted, copies included
HoldsBuffered(p, buffered, row) ==
    \A r \in Rows :
        Count(LoadedPart_get_all_rows(p), r)
            = Count(buffered, r) + (IF r = row THEN 1 ELSE 0)

\* C16: with one client and the background worker off, the memtable holds
\* fewer than memtable_flush_threshold rows whenever insert returns; the
\* insert that brings it to the threshold adds exactly one part, holding all
\* the buffered rows, and empties the memtable.
C16_InsertFlushesAtThreshold ==
    [][\A row \in Rows :
          Insert(row) =>
              /\ Len(memtable') < config.memtable_flush_threshold
              /\ Len(memtable) + 1 = config.memtable_flush_threshold =>
                    /\ memtable' = <<>>
                    /\ Len(parts') = Len(parts) + 1
                    /\ SubSeq(parts', 1, Len(parts)) = parts
                    /\ HoldsBuffered(parts'[Len(parts')], memtable, row)]_vars

\* three inserts at threshold 3 have left one part of three rows, two of
\* them copies of one row
C16_Witness ==
    /\ config.memtable_flush_threshold = 3
    /\ n_inserts = 3
    /\ Cardinality(inserted) = 2
    /\ memtable = <<>>
    /\ allocated = <<1>>
    /\ Len(parts) = 1
    /\ parts[1].metadata.row_count = 3
    /\ last_op = [op |-> "other", created |-> 1]

\* C17: flush_memtable does not change total_rows(), and as long as no merge
\* has run in the session total_rows() is the number of insert calls made,
\* repeated (key, timestamp) included.  (Without a reopen, no merge has run
\* exactly when every part ever created is still in the list.)
C17_TotalRowsCountsInserts ==
    [][/\ FlushMemtable => MergeTree_total_rows(Eng') = MergeTree_total_rows(Eng)
       /\ (reopens' = 0 /\ Len(parts') = Len(allocated')) =>
             MergeTree_total_rows(Eng') = n_inserts']_vars

\* one (key, timestamp) inserted three times sits in two flushed parts, no
\* merge has run, and flush_memtable has just written the second part
C17_Witness ==
    /\ reopens = 0
    /\ n_inserts = 3
    /\ Cardinality(inserted) = 1
    /\ memtable = <<>>
    /\ allocated = <<1, 2>>
    /\ Len(parts) = 2
    /\ config.memtable_flush_threshold = 3
    /\ MergeTree_total_rows(Eng) = 3
    /\ last_op = [op |-> "flush", created |-> 1]

\* the (key, timestamp) held by the parts of list
KeyTsInParts(list) ==
    UNION {KeyTsOf(LoadedPart_get_all_rows(list[i])) : i \in DOMAIN list}

\* C18: when the first shutdown() returns, no insert having run between its
\* call and its return, the shutdown flag is set, the memtable is empty and
\* every row that was buffered at the call is in a part of the parts list; a
\* shutdown() called with the flag set changes no engine state.
C18_ShutdownFlushes ==
    [][\A t \in Clients :
          /\ (/\ ShutdownReturn(t)
              /\ threads[t].quiet
              /\ threads[t].id = n_inserts) =>
                 /\ shutdown_
                 /\ memtable = <<>>
                 /\ threads[t].must_see \subseteq KeyTsInParts(parts)
          /\ (ShutdownExchange(t) /\ shutdown_) =>
                 UNCHANGED <<memtable, parts, next_part_id, disk, shutdown_>>]_vars

\* the steps of the worker inside trigger_flush_if_needed and perform_merge
WorkerAtWork ==
    threads[Worker].pc \in {"trigger_check", "flush_drain", "flush_get_id",
                            "flush_write", "flush_push_back", "merge_check",
                            "merge_extract", "merge_write", "merge_push_back"}

\* C19: with the background worker on and fair scheduling, a shutdown() that
\* has set the flag returns, and when it returns the worker has exited with
\* no merge in flight; the worker never exits from inside a flush or a
\* merge, which it carries to its end.
C19_ShutdownReturns ==
    /\ \A t \in Clients :
          (threads[t].pc = "shutdown_lock") ~>
              (/\ threads[t].pc = "shutdown_return"
               /\ threads[Worker].pc = "exited"
               /\ threads[Worker].to_merge = <<>>)
    /\ WorkerAtWork ~> (threads[Worker].pc = "idle")
    /\ [][WorkerAtWork => threads'[Worker].pc # "exited"]_vars

\* shutdown() has set the flag and waits in join; its notification has
\* reached the worker, blocked in its wait since before the flag was set
C19_Witness ==
    /\ \E t \in Clients : threads[t].pc = "shutdown_join"
    /\ shutdown_
    /\ threads[Worker].pc = "waiting"
    /\ threads[Worker].notified
    /\ Len(parts) >= 1

\* the thread t is inside a call and its next event locks a mutex that a
\* thread holds
Blocked(t) ==
    /\ threads[t].scopes # <<>>
    /\ Head(threads[t].scopes).op = "lock"
    /\ \E u \in Threads : Head(threads[t].scopes).m \in threads[u].locks

\* C20: no thread holds memtable_mutex_ and parts_mutex_ at the same time,
\* and the threads that are inside calls are never all waiting for a mutex.
C20_NeverBothLocks ==
    /\ \A t \in Threads :
          ~({"memtable_mutex_", "parts_mutex_"} \subseteq threads[t].locks)
    /\ (\E t \in Threads : threads[t].scopes # <<>>) =>
          \E t \in Threads : threads[t].scopes # <<>> /\ ~Blocked(t)

\* one client holds memtable_mutex_, the other parts_mutex_, and the worker
\* waits for memtable_mutex_
C20_Witness ==
    /\ threads["client1"].locks = {"memtable_mutex_"}
    /\ threads["client2"].locks = {"parts_mutex_"}
    /\ Blocked(Worker)
    /\ Head(threads[Worker].scopes).m = "memtable_mutex_"

\* the part id a thread has obtained for the part it is creating
ObtainedId(t) ==
    IF threads[t].pc \in {"flush_write", "flush_push_back"}
       THEN {threads[t].id}
    ELSE IF threads[t].pc = "merge_push_back"
       THEN {threads[t].new_part[1].metadata.part_id}
    ELSE {}

\* C21: two flushes, or a flush and a merge, that run at the same time on
\* different threads never obtain the same part id.
C21_ConcurrentIdsDiffer ==
    \A t \in Threads : \A u \in Threads \ {t} :
        ObtainedId(t) \cap ObtainedId(u) = {}

\* the rows of R with a key in [a, b], in the order of R
RowsWithin(R, a, b) == SelectSeq(R, LAMBDA r : a <= r.key /\ r.key <= b)

\* C22: Part::query(start, end) on a part of the list, loaded from its
\* directory when it is not loaded, returns exactly the rows of the part
\* whose key is in [start, end], in (key, timestamp) order: the pruning by
\* the key range of the part, by the sparse index and by the early exit of
\* the granule scan drops no matching row.
C22_PartQueryExact ==
    \A i \in DOMAIN parts : \A a \in Keys, b \in Keys :
        LET dir == DirOf(disk, parts[i].metadata.part_id)
        IN  /\ Part_query(parts[i], dir, a, b)
                 = RowsWithin(Part_get_all_rows(parts[i], dir), a, b)
            /\ IsOrdered(Part_query(parts[i], dir, a, b))

\* a part of two granules, not loaded since the reopen: the index passes
\* over its first granule for the range [1, 1], and the second granule
\* gives the row
C22_Witness ==
    \E i \in DOMAIN parts :
        LET dir == DirOf(disk, parts[i].metadata.part_id)
        IN  /\ ~parts[i].loaded
            /\ dir.metadata.granule_count = 2
            /\ SparseIndex_find_granules(dir.index, 1, 1) = <<1>>
            /\ Part_query(parts[i], dir, 1, 1) # <<>>
            /\ Part_query(parts[i], dir, 0, 0) # <<>>

\* the shape of a written part p, loaded
WellFormedPart(p) ==
    LET gs == p.granules
    IN  /\ p.metadata.granule_count >= 1
        /\ p.metadata.granule_count = Len(gs)
        /\ p.metadata.row_count = SumSeq([i \in DOMAIN gs |-> Len(gs[i].rows)])
        /\ \A i \in DOMAIN gs : IsOrdered(gs[i].rows)
        /\ \A i \in 1..(Len(gs) - 1) : gs[i].max_key <= gs[i + 1].min_key
        /\ p.metadata.min_key = gs[1].min_key
        /\ p.metadata.max_key = gs[Len(gs)].max_key
        /\ \A i \in DOMAIN gs : \A j \in DOMAIN gs[i].rows :
              /\ p.metadata.min_key <= gs[i].rows[j].key
              /\ gs[i].rows[j].key <= p.metadata.max_key
        /\ Len(p.index) = Len(gs)
        /\ \A j \in DOMAIN p.index : p.index[j].granule_index = j - 1

\* C23: every part a flush or a merge has written, as the object in the
\* list and as its directory on disk, has at least one granule, row_count
\* the sum of the granule sizes, every granule sorted by (key, timestamp),
\* the granules in key order, metadata min_key and max_key those of the
\* first and the last granule and bounding every key, and one index entry
\* per granule numbered 0, 1, ... in that order.
C23_WrittenPartsWellFormed ==
    /\ \A i \in DOMAIN parts : parts[i].loaded => WellFormedPart(parts[i])
    /\ \A id \in PartDirectories(disk) :
          WellFormedPart(Part_load(Part_new(id), disk[id]))

\* a merge has written a part of two granules out of two flushed parts
C23_Witness ==
    /\ Len(allocated) = 3
    /\ Len(parts) = 1
    /\ parts[1].loaded
    /\ parts[1].metadata.granule_count = 2
    /\ parts[1].metadata.min_key < parts[1].metadata.max_key

\* the granules gs hold 1 to GRANULE_SIZE rows each, all but the last full
FilledInOrder(gs) ==
    /\ \A i \in DOMAIN gs : Len(gs[i].rows) \in 1..GRANULE_SIZE
    /\ \A i \in 1..(Len(gs) - 1) : Len(gs[i].rows) = GRANULE_SIZE

\* C24: every granule of every part, in the list and on disk, holds between
\* 1 and GRANULE_SIZE rows, and every granule but the last of a part is
\* full, so that a part of more than GRANULE_SIZE rows has a full granule.
C24_GranulesFilled ==
    /\ \A i \in DOMAIN parts : parts[i].loaded => FilledInOrder(parts[i].granules)
    /\ \A id \in PartDirectories(disk) :
          LET p == Part_load(Part_new(id), disk[id])
          IN  /\ FilledInOrder(p.granules)
              /\ p.metadata.row_count > GRANULE_SIZE =>
                    \E i \in DOMAIN p.granules : Len(p.granules[i].rows) = GRANULE_SIZE

\* a flush at threshold 3 has written GRANULE_SIZE + 1 rows: a full granule
\* and a granule of one row
C24_Witness ==
    /\ Len(parts) = 1
    /\ allocated = <<1>>
    /\ parts[1].loaded
    /\ parts[1].metadata.row_count = GRANULE_SIZE + 1
    /\ Len(parts[1].granules) = 2
    /\ Len(parts[1].granules[2].rows) = 1

\* C25: in every reachable state the parts list is ordered by strictly
\* increasing part_id.
C25_PartsOrderedById ==
    \A i \in DOMAIN parts : \A j \in DOMAIN parts :
        i < j => parts[i].metadata.part_id < parts[j].metadata.part_id

\* the adjacent pairs and the adjacent triples of a list of n parts
AdjacentTuples(n) ==
    {<<i, i + 1>> : i \in 1..(n - 1)} \cup {<<i, i + 1, i + 2>> : i \in 1..(n - 2)}

\* C26: the candidate a perform_merge merges, having asked the Merger for
\* one candidate, has the highest score among the adjacent pairs and the
\* adjacent triples of the parts list.
C26_MergesBestCandidate ==
    [][(/\ MergePartsSync
        /\ reopens = 0
        /\ Len(allocated') = Len(allocated) + 1) =>
          \A idx \in AdjacentTuples(Len(parts)) :
              ~ScoreGreater(Merger_calculate_merge_score(idx, parts, disk),
                            Merger_select_merge_candidates(parts, disk, 1)[1].score)]_vars

\* the position in a list of n parts of the k-th part that is not at a
\* position of sel
KthKept(n, sel, k) ==
    CHOOSE i \in (1..n) \ sel : Cardinality({j \in (1..n) \ sel : j <= i}) = k

\* C27: a perform_merge that selects a candidate takes exactly the selected
\* parts out of the list, keeps the others in their order and appends one
\* part, written by this call, at the end; with fewer than 2 parts or no
\* candidate of positive score it leaves the list and next_part_id as they
\* are.
C27_MergeFrame ==
    [][(MergePartsSync /\ MergeTree_should_trigger_merge(Eng, config)) =>
          LET cands == IF Len(parts) < 2 THEN <<>>
                       ELSE Merger_select_merge_candidates(parts, disk, 1)
          IN  IF cands = <<>>
                 THEN parts' = parts /\ next_part_id' = next_part_id
              ELSE LET sel == Range(cands[1].part_indices)
                   IN  /\ Len(parts') = Len(parts) - Cardinality(sel) + 1
                       /\ \A k \in 1..(Len(parts') - 1) :
                             parts'[k] = parts[KthKept(Len(parts), sel, k)]
                       /\ Len(allocated') = Len(allocated) + 1
                       /\ parts'[Len(parts')].metadata.part_id
                             = allocated'[Len(allocated')]]_vars

\* three flushed parts, then a merge of the first two: the third part is
\* now the first of the list and the merged part follows it
C27_Witness ==
    /\ reopens = 0
    /\ allocated = <<1, 2, 3, 4>>
    /\ Len(parts) = 2
    /\ parts[1].metadata.part_id = 3
    /\ parts[2].metadata.part_id = 4
    /\ parts[2].metadata.row_count = 2
    /\ last_op = [op |-> "other", created |-> 1]

\* C28: the parts a perform_merge has taken as input are out of the parts
\* list while it runs, and no two threads hold the same part as input of a
\* merge: a part is consumed by at most one merge.
C28_MergeInputsExclusive ==
    \A t \in Threads :
        /\ Range(threads[t].to_merge) \cap Range(parts) = {}
        /\ \A u \in Threads \ {t} :
              Range(threads[t].to_merge) \cap Range(threads[u].to_merge) = {}

\* the worker is merging the two parts it has extracted while a client,
\* which saw two parts in should_trigger_merge, is about to select its own
C28_Witness ==
    /\ threads[Worker].pc = "merge_write"
    /\ Len(threads[Worker].to_merge) = 2
    /\ \E t \in Clients : threads[t].pc = "merge_extract"

\* the rows a thread has drained and not yet appended as a part
DrainedBy(t) ==
    IF threads[t].pc \in {"flush_get_id", "flush_write"} THEN threads[t].rows
    ELSE IF threads[t].pc = "flush_push_back"
       THEN LoadedPart_get_all_rows(threads[t].new_part[1])
    ELSE <<>>

\* every row inserted so far, copies included, wherever it is: the memtable,
\* a flushing thread, a part of the list
RowsAnywhere ==
    memtable \o DrainedBy("client1") \o DrainedBy("client2") \o DrainedBy(Worker)
        \o Flatten([i \in DOMAIN parts |-> LoadedPart_get_all_rows(parts[i])])

\* no merge has taken a part yet: every part written is in the list or about
\* to be appended by its flush
NoMergeYet ==
    /\ \A t \in Threads : threads[t].to_merge = <<>>
    /\ Len(allocated)
          = Len(parts) + Cardinality({t \in Threads : threads[t].pc = "flush_push_back"})

\* C29: with several threads flushing at the same time, every buffered row
\* is drained by exactly one of them: until a merge runs, each inserted row
\* is in exactly one of the memtable, the hands of one flushing thread and
\* one part, and a flush that finds the memtable empty creates no part.
C29_RowsDrainedOnce ==
    /\ [](NoMergeYet =>
             /\ Len(RowsAnywhere) = n_inserts
             /\ KeyTsOf(RowsAnywhere) = inserted)
    /\ [][\A t \in Threads :
             ((FlushDrain(t) \/ CallFlushMemtable(t)) /\ memtable = <<>>) =>
                 /\ threads'[t].pc \notin {"flush_get_id", "flush_write", "flush_push_back"}
                 /\ UNCHANGED <<parts, disk, allocated>>]_vars

\* a client has drained the two buffered rows and is writing its part; the
\* worker, which saw the threshold reached, is about to find the memtable
\* empty
C29_Witness ==
    /\ \E t \in Clients :
          threads[t].pc = "flush_write" /\ Len(threads[t].rows) = 2
    /\ threads[Worker].pc = "flush_drain"
    /\ memtable = <<>>

\* C30: when the write of the new part fails in flush_memtable, the call
\* throws, the memtable is empty and the parts list is as before, so the
\* drained rows are in neither (total_rows() is lower by their number), and
\* the id of the failed part is not handed out again in the session: it is
\* below the counter after the failure, the counter never goes down and no
\* flush or merge takes an id below the counter.
C30_FailedFlushLosesRows ==
    [][/\ FlushFails =>
            /\ last_op'.op = "threw"
            /\ memtable' = <<>>
            /\ parts' = parts
            /\ MergeTree_total_rows(Eng') = MergeTree_total_rows(Eng) - Len(memtable)
            /\ next_part_id' > MergeTree_get_next_part_id(next_part_id).id
       /\ reopens' = reopens =>
            /\ next_part_id' >= next_part_id
            /\ \A k \in (Len(allocated) + 1)..Len(allocated') :
                  allocated'[k] >= next_part_id]_vars

\* a flush has failed with id 1, and the next flush has written part 2
C30_Witness ==
    /\ reopens = 0
    /\ n_inserts = 2
    /\ allocated = <<2>>
    /\ Len(parts) = 1
    /\ parts[1].metadata.part_id = 2
    /\ parts[1].metadata.row_count = 1
    /\ memtable = <<>>

\* C31: an exception thrown by a flush or a merge the background worker
\* started is caught in the worker: the worker is then back at the top of
\* its loop, not ended, and once shutdown is requested it exits.
C31_WorkerSurvivesFailure ==
    /\ [][(MergeWriteFails(Worker) \/ FlushWriteFails(Worker)) =>
             threads'[Worker].pc = "idle"]_vars
    /\ shutdown_ ~> (threads[Worker].pc = "exited")

\* the worker went through its handler in its last turn of the loop, and
\* has exited at the shutdown request that followed
C31_Witness ==
    /\ threads[Worker].ret = "caught"
    /\ threads[Worker].pc = "exited"
    /\ shutdown_

\* C32: an engine opened over an existing directory lists the parts found
\* on disk in ascending part_id order, each unloaded, and its next_part_id
\* is the largest id found plus 1 (1 when none is found), which is the id
\* of no directory on disk.
C32_ReopenListsParts ==
    [][Reopen(config) =>
          /\ {parts'[i].metadata.part_id : i \in DOMAIN parts'} = PartDirectories(disk')
          /\ \A i \in DOMAIN parts' : \A j \in DOMAIN parts' :
                i < j => parts'[i].metadata.part_id < parts'[j].metadata.part_id
          /\ \A i \in DOMAIN parts' : ~parts'[i].loaded
          /\ next_part_id' = IF PartDirectories(disk') = {} THEN 1
                             ELSE MaxOf(PartDirectories(disk')) + 1
          /\ next_part_id' \notin PartDirectories(disk')]_vars

\* the engine has just been opened over two part directories
C32_Witness ==
    /\ reopens = 1
    /\ last_op = [op |-> "open", created |-> 0]
    /\ PartDirectories(disk) = {1, 2}
    /\ Len(parts) = 2
    /\ next_part_id = 3

\* C33: with max_parts = 0 and at least one row in the engine (buffered or in
\* a part), a call of optimize() does not return: the caller stays in the
\* loop, every buffered row has been flushed, at least one part is listed,
\* and in a session that has not been reopened exactly one part remains
C33_OptimizeNeverReturns ==
    [][(Optimize /\ config.max_parts = 0 /\ (memtable # <<>> \/ parts # <<>>))
          => /\ pc' = "optimize"
             /\ memtable' = <<>>
             /\ Len(parts') >= 1
             /\ MergeTree_should_trigger_merge(Eng', config)
             /\ (reopens = 0 => Len(parts') = 1)]_vars

\* C33 witness: optimize was called with max_parts = 0 on two parts and a
\* buffered row; the caller is in the loop with one part listed
C33_Witness ==
    /\ pc = "optimize"
    /\ config.max_parts = 0
    /\ reopens = 0
    /\ Len(parts) = 1
    /\ Len(allocated) = 3
    /\ parts[1].metadata.row_count = 3

\* C34: every candidate select_merge_candidates returns for the engine's
\* parts list, asked for one candidate as perform_merge asks, is a tuple of
\* consecutive positions (i, i+1) or (i, i+1, i+2) of the list.
C34_CandidatesAdjacent ==
    \A sel \in {Merger_select_merge_candidates(parts, disk, 1)} :
        \A k \in DOMAIN sel : sel[k].part_indices \in AdjacentTuples(Len(parts))

\* C35: flush_memtable on an empty memtable changes nothing (the parts list,
\* the part-id counter, the directories and the memtable stay as they were,
\* no id is handed out); and no part of zero rows is ever created: every
\* part directory on disk and every loaded part of the list holds a row.
C35_EmptyFlushIsNoOp ==
    /\ [][(FlushMemtable /\ memtable = <<>>)
            => UNCHANGED <<memtable, parts, next_part_id, disk, allocated>>]_vars
    /\ [](/\ \A d \in DOMAIN disk :
                disk[d].exists => /\ disk[d].metadata.row_count >= 1
                                  /\ disk[d].granule_files # <<>>
          /\ \A i \in DOMAIN parts :
                parts[i].loaded => parts[i].metadata.row_count >= 1)

\* C35 witness: flush_memtable has just been called on an empty memtable
\* with a part already listed and written
C35_Witness ==
    /\ last_op = [op |-> "flush", created |-> 0]
    /\ memtable = <<>>
    /\ Len(parts) = 1
    /\ PartDirectories(disk) = {1}
    /\ next_part_id = 2

\* R holds every row exactly as many times as the memtable mem holds it
SameRowsAs(R, mem) == \A r \in Rows : Count(R, r) = Count(mem, r)

\* C36: get_all_rows, and flush_to_granules flattened, return the rows the
\* memtable holds, each as many times as it is held, in non-decreasing
\* (key, timestamp) order; a step either leaves the memtable as it is,
\* clears it, or is an insert that adds one copy of one row and removes
\* nothing, so that the rows held are the rows inserted since the last
\* clear, copies included, and size() is their number.
C36_MemTableKeepsEveryInsert ==
    /\ [](/\ IsOrdered(MemTable_get_all_rows(memtable))
          /\ SameRowsAs(MemTable_get_all_rows(memtable), memtable)
          /\ \A gs \in {MemTable_flush_to_granules(memtable)} :
                /\ IsOrdered(Flatten([i \in DOMAIN gs |-> gs[i].rows]))
                /\ SameRowsAs(Flatten([i \in DOMAIN gs |-> gs[i].rows]), memtable)
                /\ \A i \in DOMAIN gs : gs[i].rows # <<>>)
    /\ [][IF \E row \in Rows : Insert(row)
             THEN \E row \in Rows :
                     /\ Insert(row)
                     /\ \/ /\ memtable' = <<>>
                           /\ Len(memtable) + 1 >= config.memtable_flush_threshold
                        \/ /\ Len(memtable') = Len(memtable) + 1
                           /\ \A r \in Rows :
                                 Count(memtable', r)
                                    = Count(memtable, r) + (IF r = row THEN 1 ELSE 0)
          ELSE memtable' = memtable \/ memtable' = <<>>]_vars

\* C36 witness: the same row was inserted twice and the memtable holds both
\* copies, which flush_to_granules packs into one granule
C36_Witness ==
    /\ Len(memtable) = 2
    /\ memtable[1] = memtable[2]
    /\ Cardinality(inserted) = 1
    /\ n_inserts = 2
    /\ parts = <<>>
    /\ Len(MemTable_flush_to_granules(memtable)) = 1

\* C37: for every loaded part of the list (each was written by a flush or a
\* merge): unload followed by load, from the directory of the part's id,
\* gives back the part with the rows, index and metadata it has; a query on
\* the unloaded part returns what it returns on the loaded one; load on the
\* loaded part and a second unload change nothing; unload keeps the
\* metadata in memory.
C37_UnloadLoadRoundTrip ==
    \A i \in DOMAIN parts :
        parts[i].loaded =>
            \A dir \in {DirOf(disk, parts[i].metadata.part_id)} :
                /\ Part_exists_on_disk(dir)
                /\ Part_load(Part_unload(parts[i]), dir) = parts[i]
                /\ Part_load(parts[i], dir) = parts[i]
                /\ Part_unload(Part_unload(parts[i])) = Part_unload(parts[i])
                /\ Part_unload(parts[i]).metadata = parts[i].metadata
                /\ \A a \in Keys, b \in Keys :
                      Part_query(Part_unload(parts[i]), dir, a, b)
                         = LoadedPart_query(parts[i], a, b)

\* C38: Merger::merge_parts called with one part of the parts list returns
\* that part as it is and leaves the data directory as it is (no part is
\* written, no id is taken); called with no part it throws and leaves the
\* data directory as it is.
C38_MergeOnePartIsIdentity ==
    /\ \A i \in DOMAIN parts :
          Merger_merge_parts(<<parts[i]>>, next_part_id, disk)
             = [part |-> parts[i], dirs |-> disk]
    /\ Merger_merge_parts(<<>>, next_part_id, disk) = [threw |-> TRUE, dirs |-> disk]

\* C38 witness: two parts are listed, one unloaded since the engine was
\* reopened and one flushed after, and merge_parts on either returns it
C38_Witness ==
    /\ Len(parts) = 2
    /\ ~parts[1].loaded
    /\ parts[2].loaded
    /\ parts[2].metadata.row_count = 2
    /\ Merger_merge_parts(<<parts[2]>>, next_part_id, disk).part = parts[2]
    /\ Merger_merge_parts(<<parts[1]>>, next_part_id, disk).dirs = disk

\* C39: once shutdown() has returned, insert still takes a row and query
\* returns it; a second shutdown() does nothing; destroying the engine
\* writes nothing, so the rows buffered then are on no part when the
\* directory is opened again; and buffered rows become a part only in a step
\* of insert (the threshold flush) or of flush_memtable, called by the
\* client or as the first statement of optimize.
C39_NoFlushAfterShutdown ==
    [][shutdown_ =>
          /\ \A row \in Rows :
                Insert(row) => KeyTs(row) \in KeyTsOf(MergeTree_query(Eng', row.key, row.key))
          /\ Shutdown => UNCHANGED <<memtable, parts, next_part_id, disk, allocated>>
          /\ Reopen(config) =>
                /\ disk' = disk
                /\ allocated' = allocated
                /\ memtable' = <<>>
                /\ Len(parts') = Cardinality(PartDirectories(disk))
          /\ (Len(allocated') > Len(allocated) /\ memtable # <<>> /\ memtable' = <<>>)
                => \/ \E row \in Rows : Insert(row)
                   \/ FlushMemtable
                   \/ Optimize]_vars

\* C39 witness: a row was inserted after shutdown() and the engine was then
\* destroyed and opened again: one insert was made and no part exists
C39_Witness ==
    /\ reopens = 1
    /\ last_op.op = "open"
    /\ n_inserts = 1
    /\ memtable = <<>>
    /\ parts = <<>>
    /\ disk = <<>>

\* the tuples select_merge_candidates can read, for the engine's parts list
VisitedNow == SelectVisits(Len(parts))

\* some tuple visited names a position outside the list
ReadsOutsideList ==
    \E k \in DOMAIN VisitedNow : \E j \in DOMAIN VisitedNow[k] :
        VisitedNow[k][j] \notin 1..Len(parts)

\* C40, as stated: whenever the parts list holds fewer than 3 parts,
\* select_merge_candidates reads a position outside the list, the bound
\* parts.size() - 2 of its triple loop having wrapped.
C40_UnderflowBelowThree ==
    Len(parts) < 3 => (ReadsOutsideList /\ SizeMinus(Len(parts), 2) > Len(parts))

\* C40, amended: select_merge_candidates reads no position outside the
\* list.  With fewer than 2 parts it returns before either loop; with 2 parts
\* the bound parts.size() - 2 is 0, so only the pair (0, 1) is read and no
\* triple; the difference is evaluated only for 2 parts or more and does not
\* wrap; every candidate returned names positions of the list.
C40_NoReadOutsideList ==
    /\ ~ReadsOutsideList
    /\ Len(parts) < 2 => VisitedNow = <<>>
    /\ Len(parts) = 2 => VisitedNow = <<(<<1, 2>>)>>
    /\ Len(parts) >= 2 => SizeMinus(Len(parts), 2) = Len(parts) - 2
    /\ \A max_candidates \in {1, 3} :
          \A sel \in {Merger_select_merge_candidates(parts, disk, max_candidates)} :
              \A k \in DOMAIN sel : Range(sel[k].part_indices) \subseteq 1..Len(parts)

\* C40 witness: merge_parts_sync has run on a list of exactly two parts, so
\* select_merge_candidates was called with fewer than 3 parts, and merged
\* them
C40_Witness ==
    /\ reopens = 0
    /\ n_inserts = 2
    /\ Len(allocated) = 3
    /\ Len(parts) = 1
    /\ memtable = <<>>
    /\ last_op = [op |-> "other", created |-> 1]

====
